---- MODULE Spec2Model ----
(***************************************************************************)
(* State-machine model of kurt-vd/wifitomqtt:                              *)
(*   - attomqtt.c  : AT command queue, response aggregation, fail topic,   *)
(*                   termination paths                                     *)
(*   - wifitomqtt.c: wpa_supplicant command queue and termination paths    *)
(*   - common.c    : mylog (fatal on LOG_ERR), self-sync                   *)
(* Every handler of the event loops is one action.  A handler is written   *)
(* as a function from a record of the program's globals to the record      *)
(* after the handler; a record whose pc is "exited" is left untouched by   *)
(* every later statement (exit(3) does not return).                        *)
(***************************************************************************)
EXTENDS Integers, Sequences, FiniteSets, TLC

(* ------------------------------------------------------------------ *)
(* Bounds of the model                                                 *)
(* ------------------------------------------------------------------ *)
\* at_write calls accepted from the broker / periodic pollers after startup
MaxCmds == 1
\* lines the modem may add to one open response group
MaxResp == 1
\* lines of the longest listing the modem sends in answer to one command
MaxLines == 31
\* unsolicited lines about the SIM card in one run
MaxUrc == 3
\* sizeof(buf) of at_recvd in the model
BufSize == 12
\* commands added after startup in a run of errors
MaxCeer == 2
\* consecutive EAGAIN results where the TTY is not the subject
MaxBlocks == 1
\* commands wifitomqtt sends to wpa_supplicant in one run
MaxWpaCmds == 7
\* commands sent to wpa_supplicant, and messages of the broker, in a run that
\* manages networks
MaxNetCmds == 11
MaxMsgs == 3
\* calls of mypublish_change in one sequence
MaxSeq == 3

(* ------------------------------------------------------------------ *)
(* Program constants                                                   *)
(* ------------------------------------------------------------------ *)
LOG_ERR == 3
LOG_WARNING == 4
NARGV == 32
MAXSUBSEQUENTTIMEOUTS == 5
MAXSUCCESSIVEBLOCKS == 10
RSSI_NOVALUE == 99

\* a NULL char pointer
NULL == "(null)"
\* the C idiom  x ?: ""
OrEmpty(x) == IF x = NULL THEN "" ELSE x

O_CSQ == "csq"
O_SIMCOM == "simcom"
O_DETACHEDSCAN == "detachedscan"
O_CEER == "ceer"

(* ------------------------------------------------------------------ *)
(* libc string helpers                                                 *)
(* ------------------------------------------------------------------ *)
Min(a, b) == IF a < b THEN a ELSE b

UPPERCASE == "ABCDEFGHIJKLMNOPQRSTUVWXYZ"
LOWERCASE == "abcdefghijklmnopqrstuvwxyz"
DIGITS == "0123456789"

CharAt(s, i) == SubSeq(s, i, i)

UpperSet == {CharAt(UPPERCASE, i) : i \in 1..26}
LowerOf == [c \in UpperSet |-> CharAt(LOWERCASE, CHOOSE i \in 1..26 : CharAt(UPPERCASE, i) = c)]
tolower(c) == IF c \in UpperSet THEN LowerOf[c] ELSE c

RECURSIVE strlower(_)
strlower(s) == IF s = "" THEN "" ELSE tolower(CharAt(s, 1)) \o strlower(SubSeq(s, 2, Len(s)))

\* first n characters (all of s when shorter)
strnprefix(s, n) == SubSeq(s, 1, Min(n, Len(s)))
\* s+n
strfrom(s, n) == IF n >= Len(s) THEN "" ELSE SubSeq(s, n+1, Len(s))

\* the comparison functions, as "is equal" predicates (result == 0)
strcmp0(a, b) == a = b
strncmp0(a, b, n) == strnprefix(a, n) = strnprefix(b, n)
strcasecmp0(a, b) == strlower(a) = strlower(b)
strncasecmp0(a, b, n) == strlower(strnprefix(a, n)) = strlower(strnprefix(b, n))

\* strstr(haystack, needle) != NULL
strstr0(haystack, needle) ==
    \E i \in 1..(Len(haystack) + 1) :
        i + Len(needle) - 1 <= Len(haystack)
        /\ SubSeq(haystack, i, i + Len(needle) - 1) = needle

isdigit(c) == \E d \in 1..10 : CharAt(DIGITS, d) = c
digitval(c) == (CHOOSE d \in 1..10 : CharAt(DIGITS, d) = c) - 1

\* strtoul(s, &endp, 10) on a string that starts with digits:
\* [val |-> number, endp |-> rest of the string]; no digit: val 0, endp = s
RECURSIVE strtoul_acc(_, _)
strtoul_acc(s, acc) ==
    IF s # "" /\ isdigit(CharAt(s, 1))
    THEN strtoul_acc(strfrom(s, 1), 10 * acc + digitval(CharAt(s, 1)))
    ELSE [val |-> acc, endp |-> s]
strtoul(s) == strtoul_acc(s, 0)

\* printf("%i")
RECURSIVE utoa(_)
utoa(n) == IF n < 10 THEN CharAt(DIGITS, n + 1)
           ELSE utoa(n \div 10) \o CharAt(DIGITS, (n % 10) + 1)
itoa(n) == IF n < 0 THEN "-" \o utoa(0 - n) ELSE utoa(n)

\* printf("%7s"): right-justified in a field of 7
RECURSIVE pad7(_)
pad7(s) == IF Len(s) >= 7 THEN s ELSE pad7(" " \o s)

strip_quotes(str) ==
    IF str = NULL \/ str = "" THEN str
    ELSE IF CharAt(str, 1) = "\"" /\ CharAt(str, Len(str)) = "\""
         THEN SubSeq(str, 2, Len(str) - 1)
         ELSE str

\* join the elements of a sequence of strings with tabs
RECURSIVE tabjoin(_)
tabjoin(q) == IF q = <<>> THEN ""
              ELSE IF Len(q) = 1 THEN q[1]
              ELSE q[1] \o "\t" \o tabjoin(Tail(q))

Last(q) == q[Len(q)]

\* strtok(str, delims): the first token of str and what follows its delimiter
RECURSIVE skipdelims(_, _)
skipdelims(str, delims) ==
    IF str # "" /\ CharAt(str, 1) \in delims THEN skipdelims(strfrom(str, 1), delims)
    ELSE str
RECURSIVE toklen(_, _)
toklen(str, delims) ==
    IF str = "" \/ CharAt(str, 1) \in delims THEN 0
    ELSE 1 + toklen(strfrom(str, 1), delims)
strtok(str, delims) ==
    LET token(s1, n) == IF s1 = "" THEN [tok |-> NULL, rest |-> ""]
                        ELSE [tok |-> SubSeq(s1, 1, n), rest |-> strfrom(s1, n + 1)]
        first(s1) == token(s1, toklen(s1, delims))
    IN  first(skipdelims(str, delims))

\* strtoul(s, &endp, 16) on the leading hexadecimal digits of s
HEXDIGITS == "0123456789abcdef"
isxdigit(c) == \E d \in 1..16 : CharAt(HEXDIGITS, d) = tolower(c)
xdigitval(c) == (CHOOSE d \in 1..16 : CharAt(HEXDIGITS, d) = tolower(c)) - 1
RECURSIVE strtoul16_acc(_, _)
strtoul16_acc(s, acc) ==
    IF s # "" /\ isxdigit(CharAt(s, 1))
    THEN strtoul16_acc(strfrom(s, 1), 16 * acc + xdigitval(CharAt(s, 1)))
    ELSE [val |-> acc, endp |-> s]

\* htod: a hexadecimal string as decimal text, NULL when it has no digit
htod(hex) ==
    IF hex = NULL \/ hex = "" \/ ~isxdigit(CharAt(hex, 1)) THEN NULL
    ELSE utoa(strtoul16_acc(hex, 0).val)

\* (int)strtoul(str ?: "-1", NULL, 10) on an unsigned decimal token: leading
\* blanks are skipped, text without a digit gives 0
tokidx(str) == IF str = NULL THEN -1 ELSE strtoul(skipdelims(str, {" "})).val

(* ------------------------------------------------------------------ *)
(* attomqtt: program state                                             *)
(* ------------------------------------------------------------------ *)
VARIABLES
    at_pc,                  \* main(): "loop", "selfsync" (while (!ready)), "exited"
    at_exitcode,            \* exit status once at_pc = "exited", else -1
    options,                \* set of O_xxx bits
    changed_options,        \* O_xxx bits given on the command line
    strq,                   \* command queue, head first: [a |-> text, id |-> nr]
    timeouts,               \* callbacks scheduled in libt
    nsuccessiveblocks,
    nsubsequenttimeouts,
    ignore_responses,
    argv,                   \* at_recvd: argv[1..argc-1], the open response group
    receiving,              \* at_recvd: static int receiving
    my_copn,
    pbdone_seen,
    saved_rssi, saved_ber,
    saved_brand, saved_model, saved_rev, saved_imei,
    saved_fail,
    saved_op, saved_opid, saved_nt, saved_lac, saved_cellid, saved_reg, saved_greg,
    saved_iccid, saved_imsi, saved_number, saved_simop, saved_simopid,
    pri_lac, pri_cellid, pri_nt,
    operators,              \* the operator list, head first: [id |-> .., name |-> ..]
    myuuid,                 \* common.c
    ready,
    pub,                    \* mosquitto_publish calls of the last handler
    \* history variables (not read by the program)
    h_nenq,                 \* number of add_strq calls so far
    h_nstart,               \* h_nenq when main() entered its loop
    h_wlast,                \* id of the entry written to the TTY last (0: none yet)
    h_nwrites,              \* successful writev calls of the last handler
    h_cause,                \* why the process left the main loop / exited
    h_last,                 \* the last handler and its input
    h_val,                  \* per property topic: the value of the last retained publish
    h_sync                  \* the publishes of the handler that published the self-sync token

at_vars == <<at_pc, at_exitcode, options, changed_options, strq, timeouts,
             nsuccessiveblocks, nsubsequenttimeouts, ignore_responses, argv,
             receiving, my_copn, pbdone_seen, saved_rssi, saved_ber, saved_brand, saved_model,
             saved_rev, saved_imei, saved_fail,
             saved_op, saved_opid, saved_nt, saved_lac, saved_cellid, saved_reg,
             saved_greg, saved_iccid, saved_imsi, saved_number, saved_simop,
             saved_simopid, pri_lac, pri_cellid, pri_nt, operators,
             myuuid, ready, pub,
             h_nenq, h_nstart, h_wlast, h_nwrites,
             h_cause, h_last, h_val, h_sync>>

VARIABLES
    wifi,                   \* wifitomqtt: the record of its globals
    ins,                    \* atinsert: the record of its globals
    rx,                     \* attomqtt: the receive buffer of at_recvd
    h_seq,                  \* mypublish_change: the calls made so far, <<cache, value>>
    h_npub                  \* mypublish_change: publishes so far, per cache

vars == <<at_vars, wifi, ins, rx, h_seq, h_npub>>

\* the topics of the cached modem properties
SelfSyncTopic == "tmp/selfsync"
PropTopics == {"op", "opid", "nt", "reg", "greg", "lac", "cellid", "imsi", "iccid",
               "number", "simop", "simopid", "brand", "model", "rev", "imei"}

\* what the broker retains on topic after the publishes p, old being retained before
Retained(p, topic, old) ==
    LET idx == {i \in 1..Len(p) : p[i][1] = topic /\ p[i][3] = 1}
    IN  IF idx = {} THEN old ELSE p[CHOOSE i \in idx : \A j \in idx : j <= i][2]

\* the globals as one record; ret is the return value of the last call
AtS == [pc |-> at_pc, exitcode |-> at_exitcode, options |-> options,
        changed_options |-> changed_options, strq |-> strq,
        timeouts |-> timeouts, nsuccessiveblocks |-> nsuccessiveblocks,
        nsubsequenttimeouts |-> nsubsequenttimeouts,
        ignore_responses |-> ignore_responses, argv |-> argv,
        receiving |-> receiving, my_copn |-> my_copn,
        pbdone_seen |-> pbdone_seen, saved_rssi |-> saved_rssi,
        saved_ber |-> saved_ber, saved_brand |-> saved_brand,
        saved_model |-> saved_model, saved_rev |-> saved_rev,
        saved_imei |-> saved_imei, saved_fail |-> saved_fail,
        saved_op |-> saved_op, saved_opid |-> saved_opid, saved_nt |-> saved_nt,
        saved_lac |-> saved_lac, saved_cellid |-> saved_cellid,
        saved_reg |-> saved_reg, saved_greg |-> saved_greg,
        saved_iccid |-> saved_iccid, saved_imsi |-> saved_imsi,
        saved_number |-> saved_number, saved_simop |-> saved_simop,
        saved_simopid |-> saved_simopid, pri_lac |-> pri_lac,
        pri_cellid |-> pri_cellid, pri_nt |-> pri_nt, operators |-> operators,
        myuuid |-> myuuid, ready |-> ready, pub |-> <<>>, ret |-> 0,
        h_nenq |-> h_nenq, h_nstart |-> h_nstart, h_wlast |-> h_wlast,
        h_nwrites |-> 0,
        h_cause |-> h_cause]

AtCommit(r, last) ==
    /\ at_pc' = r.pc
    /\ at_exitcode' = r.exitcode
    /\ options' = r.options
    /\ changed_options' = r.changed_options
    /\ strq' = r.strq
    /\ timeouts' = r.timeouts
    /\ nsuccessiveblocks' = r.nsuccessiveblocks
    /\ nsubsequenttimeouts' = r.nsubsequenttimeouts
    /\ ignore_responses' = r.ignore_responses
    /\ argv' = r.argv
    /\ receiving' = r.receiving
    /\ my_copn' = r.my_copn
    /\ pbdone_seen' = r.pbdone_seen
    /\ saved_rssi' = r.saved_rssi
    /\ saved_ber' = r.saved_ber
    /\ saved_brand' = r.saved_brand
    /\ saved_model' = r.saved_model
    /\ saved_rev' = r.saved_rev
    /\ saved_imei' = r.saved_imei
    /\ saved_fail' = r.saved_fail
    /\ saved_op' = r.saved_op
    /\ saved_opid' = r.saved_opid
    /\ saved_nt' = r.saved_nt
    /\ saved_lac' = r.saved_lac
    /\ saved_cellid' = r.saved_cellid
    /\ saved_reg' = r.saved_reg
    /\ saved_greg' = r.saved_greg
    /\ saved_iccid' = r.saved_iccid
    /\ saved_imsi' = r.saved_imsi
    /\ saved_number' = r.saved_number
    /\ saved_simop' = r.saved_simop
    /\ saved_simopid' = r.saved_simopid
    /\ pri_lac' = r.pri_lac
    /\ pri_cellid' = r.pri_cellid
    /\ pri_nt' = r.pri_nt
    /\ operators' = r.operators
    /\ myuuid' = r.myuuid
    /\ ready' = r.ready
    /\ pub' = r.pub
    /\ h_nenq' = r.h_nenq
    /\ h_nstart' = r.h_nstart
    /\ h_wlast' = r.h_wlast
    /\ h_nwrites' = r.h_nwrites
    /\ h_cause' = r.h_cause
    /\ h_last' = last
    /\ h_val' = [topic \in PropTopics |-> Retained(r.pub, topic, h_val[topic])]
    /\ h_sync' = IF \E i \in 1..Len(r.pub) : r.pub[i][1] = SelfSyncTopic THEN r.pub
                  ELSE h_sync

Live(s) == s.pc # "exited"

\* exit(code)
exit(s, code, cause) ==
    IF ~Live(s) THEN s
    ELSE [s EXCEPT !.pc = "exited", !.exitcode = code, !.h_cause = cause]

\* common.c mylog: logs, and leaves the process when loglevel <= LOG_ERR
mylog(s, loglevel, what) ==
    IF loglevel <= LOG_ERR THEN exit(s, 1, what) ELSE s

(* ------------------------------------------------------------------ *)
(* attomqtt: libt timers, queue, publishing                            *)
(* ------------------------------------------------------------------ *)
libt_add_timeout(s, fn) ==
    IF ~Live(s) THEN s ELSE [s EXCEPT !.timeouts = @ \cup {fn}]
libt_remove_timeout(s, fn) ==
    IF ~Live(s) THEN s ELSE [s EXCEPT !.timeouts = @ \ {fn}]

add_strq(s, a) ==
    IF ~Live(s) THEN s
    ELSE [s EXCEPT !.strq = Append(@, [a |-> a, id |-> s.h_nenq + 1]),
                   !.h_nenq = @ + 1]

\* free(pop_strq())
pop_strq(s) ==
    IF ~Live(s) THEN s
    ELSE IF s.strq = <<>> THEN s
    ELSE [s EXCEPT !.strq = Tail(@)]

mypublish(s, bare_topic, value, retain) ==
    IF ~Live(s) THEN s
    ELSE [s EXCEPT !.pub = Append(@, <<bare_topic, OrEmpty(value), retain>>)]

\* a plausible slip: the option is set or cleared even when the command line
\* gave it
test_quirck_always(s, haystack, option, needle) ==
    IF strstr0(haystack, needle)
    THEN [s EXCEPT !.options = @ \cup {option}]
    ELSE [s EXCEPT !.options = @ \ {option}]

\* test_quircks / changed_brand / changed_model
test_quirck(s, haystack, option, needle) ==
    IF option \in s.changed_options THEN s
    ELSE IF strstr0(haystack, needle)
         THEN [s EXCEPT !.options = @ \cup {option}]
         ELSE [s EXCEPT !.options = @ \ {option}]
changed_brand(s) == test_quirck(s, OrEmpty(s.saved_brand), O_SIMCOM, "SIMCOM")
changed_model(s) == test_quirck(s, OrEmpty(s.saved_model), O_DETACHEDSCAN, "SIM75")

\* a plausible slip: compare the cached and the new value without the ?: ""
mypublish_change_nonull(s, mqttname, str, retain, pcache) ==
    LET \* the callers' hooks: changed_brand() / changed_model() after a change
        changed(t) == IF pcache = "saved_brand" THEN changed_brand(t)
                      ELSE IF pcache = "saved_model" THEN changed_model(t)
                      ELSE t
        cached == [s EXCEPT ![pcache] = IF str # NULL /\ str # "" THEN str ELSE NULL]
    IN  IF ~Live(s) THEN s
        ELSE IF s[pcache] # str
        THEN [changed(mypublish(cached, mqttname, str, retain)) EXCEPT !.ret = 1]
        ELSE [s EXCEPT !.ret = 0]

mypublish_change(s, mqttname, str, retain, pcache) ==
    LET \* the callers' hooks: changed_brand() / changed_model() after a change
        changed(t) == IF pcache = "saved_brand" THEN changed_brand(t)
                      ELSE IF pcache = "saved_model" THEN changed_model(t)
                      ELSE t
        cached == [s EXCEPT ![pcache] = IF str # NULL /\ str # "" THEN str ELSE NULL]
    IN  IF ~Live(s) THEN s
        ELSE IF OrEmpty(s[pcache]) # OrEmpty(str)
        THEN [changed(mypublish(cached, mqttname, str, retain)) EXCEPT !.ret = 1]
        ELSE [s EXCEPT !.ret = 0]

publish_received_property(s, x, y, z) == mypublish_change(s, x, y, 1, z)

(* ------------------------------------------------------------------ *)
(* attomqtt: AT API                                                    *)
(* ------------------------------------------------------------------ *)
ESTR_EAGAIN == "Resource temporarily unavailable"
ESTR_EIO == "Input/output error"

\* results of writev(2) on the non-blocking TTY
WritevResults == {"ok", "EAGAIN", "EIO", "short"}

\* a plausible slip: >= instead of > in the test of nsuccessiveblocks
at_ll_write_ge(s, e, wr) ==
    LET fail(t, why) == mypublish_change(t, "fail", "writev " \o pad7(e.a) \o ": " \o why,
                                         0, "saved_fail")
        blocked(t) == IF t.nsuccessiveblocks >= MAXSUCCESSIVEBLOCKS
                      THEN mylog(fail(t, itoa(t.nsuccessiveblocks) \o " x " \o ESTR_EAGAIN),
                                 LOG_ERR, "blocks")
                      ELSE t
    IN  IF ~Live(s) THEN s
        ELSE IF wr = "EAGAIN" THEN
            [blocked([s EXCEPT !.nsuccessiveblocks = @ + 1]) EXCEPT !.ret = -1]
        ELSE IF wr = "EIO" THEN
            [mylog(fail(s, ESTR_EIO), LOG_ERR, "writev") EXCEPT !.ret = 5]
        ELSE IF wr = "short" THEN
            [mylog(fail(s, "incomplete"), LOG_ERR, "writev") EXCEPT !.ret = Len(e.a)]
        ELSE
            [libt_add_timeout([s EXCEPT !.nsuccessiveblocks = 0, !.h_wlast = e.id,
                                        !.h_nwrites = @ + 1], "at_timeout")
             EXCEPT !.ret = Len(e.a) + 1]

\* at_ll_write(strq->a); e is the queue entry whose text is written,
\* wr the result of writev
at_ll_write(s, e, wr) ==
    LET fail(t, why) == mypublish_change(t, "fail", "writev " \o pad7(e.a) \o ": " \o why,
                                         0, "saved_fail")
        blocked(t) == IF t.nsuccessiveblocks > MAXSUCCESSIVEBLOCKS
                      THEN mylog(fail(t, itoa(t.nsuccessiveblocks) \o " x " \o ESTR_EAGAIN),
                                 LOG_ERR, "blocks")
                      ELSE t
    IN  IF ~Live(s) THEN s
        ELSE IF wr = "EAGAIN" THEN
            [blocked([s EXCEPT !.nsuccessiveblocks = @ + 1]) EXCEPT !.ret = -1]
        ELSE IF wr = "EIO" THEN
            [mylog(fail(s, ESTR_EIO), LOG_ERR, "writev") EXCEPT !.ret = 5]
        ELSE IF wr = "short" THEN
            [mylog(fail(s, "incomplete"), LOG_ERR, "writev") EXCEPT !.ret = Len(e.a)]
        ELSE
            [libt_add_timeout([s EXCEPT !.nsuccessiveblocks = 0, !.h_wlast = e.id,
                                        !.h_nwrites = @ + 1], "at_timeout")
             EXCEPT !.ret = Len(e.a) + 1]

\* a plausible slip: write the command that was just queued, whatever is pending
at_write_eager(s, cmd, wr) ==
    LET retry(t) == IF t.ret < 0 THEN libt_add_timeout(t, "at_next_cmd") ELSE t
        send(t) == retry(at_ll_write(t, Last(t.strq), wr))
    IN  IF ~Live(s) \/ Len(cmd) <= 0 THEN s
        ELSE [send(add_strq(s, cmd)) EXCEPT !.ret = 0]

at_write(s, cmd, wr) ==
    LET retry(t) == IF t.ret < 0 THEN libt_add_timeout(t, "at_next_cmd") ELSE t
        \* if (!strq->next): the queue held nothing else, write now
        send(t) == IF Len(t.strq) = 1 THEN retry(at_ll_write(t, Head(t.strq), wr)) ELSE t
    IN  IF ~Live(s) \/ Len(cmd) <= 0 THEN s
        ELSE [send(add_strq(s, cmd)) EXCEPT !.ret = 0]

\* a plausible slip: only the head of the queue is looked at
at_ifnotqueued_head(s, atcmd, wr) ==
    IF ~Live(s) THEN s
    ELSE IF s.strq # <<>> /\ strcmp0(atcmd, Head(s.strq).a)
         THEN [s EXCEPT !.ret = 0]
         ELSE [at_write(s, atcmd, wr) EXCEPT !.ret = 1]

\* a plausible slip: the command counts as queued whatever the queue holds
at_ifnotqueued_skip(s, atcmd, wr) == IF ~Live(s) THEN s ELSE [s EXCEPT !.ret = 0]

at_ifnotqueued(s, atcmd, wr) ==
    IF ~Live(s) THEN s
    ELSE IF \E i \in 1..Len(s.strq) : strcmp0(atcmd, s.strq[i].a)
         THEN [s EXCEPT !.ret = 0]
         ELSE [at_write(s, atcmd, wr) EXCEPT !.ret = 1]

\* a plausible slip: a blocked write is not retried
at_next_cmd_noretry(s, wr) ==
    IF ~Live(s) THEN s
    ELSE IF s.strq # <<>> THEN at_ll_write(s, Head(s.strq), wr)
    ELSE s

at_next_cmd(s, wr) ==
    LET retry(t) == IF t.ret < 0 THEN libt_add_timeout(t, "at_next_cmd") ELSE t
    IN  IF ~Live(s) THEN s
        ELSE IF s.strq # <<>> THEN retry(at_ll_write(s, Head(s.strq), wr))
        ELSE s

\* a plausible slip: >= instead of >
at_timeout_ge(s, wr) ==
    LET toomany(t) == IF t.nsubsequenttimeouts >= MAXSUBSEQUENTTIMEOUTS
                      THEN mylog(t, LOG_ERR, "timeouts") ELSE t
        s1 == mypublish_change(s, "fail", Head(s.strq).a \o ": timeout", 0, "saved_fail")
        s2 == pop_strq(mylog(s1, LOG_WARNING, ""))
    IN  at_next_cmd(toomany([s2 EXCEPT !.nsubsequenttimeouts = @ + 1]), wr)

\* the libt callback; the caller guarantees strq != NULL
at_timeout(s, wr) ==
    LET toomany(t) == IF t.nsubsequenttimeouts > MAXSUBSEQUENTTIMEOUTS
                      THEN mylog(t, LOG_ERR, "timeouts") ELSE t
        s1 == mypublish_change(s, "fail", Head(s.strq).a \o ": timeout", 0, "saved_fail")
        s2 == pop_strq(mylog(s1, LOG_WARNING, ""))
    IN  at_next_cmd(toomany([s2 EXCEPT !.nsubsequenttimeouts = @ + 1]), wr)

\* struct operator *imsi_to_operator(imsi): the index in the list of the first
\* operator whose id starts imsi, 0 for NULL
imsi_to_operator(s, imsi) ==
    LET hits == {j \in 1..Len(s.operators) :
                    strncmp0(imsi, s.operators[j].id, Len(s.operators[j].id))}
    IN  IF imsi = NULL \/ hits = {} THEN 0
        ELSE CHOOSE j \in hits : \A k \in hits : j <= k
opid_to_operator(s, id) == imsi_to_operator(s, id)

\* add_operator(id, name): ret is the index of the operator returned
add_operator(s, id, name) ==
    LET found(t, j) ==
            IF j # 0 THEN [t EXCEPT !.ret = j]
            ELSE [t EXCEPT !.operators = <<[id |-> strnprefix(id, 8), name |-> name]>> \o @,
                           !.ret = 1]
    IN  IF ~Live(s) THEN s ELSE found(s, opid_to_operator(s, id))

free_operators(s) == IF ~Live(s) THEN s ELSE [s EXCEPT !.operators = <<>>]

cregstr(id) ==
    LET cregstrs == <<"none", "registered", "searching", "denied", "unknown", "roaming",
                      "sms only", "roaming sms only", "emergency">>
    IN  IF id >= 0 /\ id < Len(cregstrs) THEN cregstrs[id + 1] ELSE cregstrs[5]

ntstr(s, id) ==
    LET ntstrs == <<"gprs", "gprs-c", "3g", "edge", "3g", "3g", "3g", "4g", "gprs", "4g",
                    "4g", "5g", "eps", "5g", "5g">>
    IN  IF id = 8 /\ O_SIMCOM \in s.options THEN "cdma"
        ELSE IF id >= 0 /\ id < Len(ntstrs) THEN ntstrs[id + 1]
        ELSE NULL

\* list for potential sources, higher values have precedence
PRI_CGREG == 4
PRI_CREG == 3
PRI_COPS == 2

publish_received_property_pri(s, mqttname, str, pcache, prio, pprio) ==
    IF ~Live(s) THEN s
    ELSE IF str = NULL \/ str = "" THEN
        IF s[pprio] = prio
        THEN publish_received_property([s EXCEPT ![pprio] = 0], mqttname, str, pcache)
        ELSE s
    ELSE IF prio >= s[pprio]
    THEN [publish_received_property(s, mqttname, str, pcache) EXCEPT ![pprio] = prio]
    ELSE s

ber_values == <<"<0.01%", "0.01% -- 0.1%", "0.1% -- 0.5%", "0.5% -- 1%",
                "1% -- 2%", "2% -- 4%", "4% -- 8%">>

\* at_recvd_info: the URC / information lines the modem model can send
at_recvd_info(s, str, wr) ==
    LET csq_rssi(t, rssi) ==
            IF rssi # t.saved_rssi
            THEN [mypublish(t, "rssi",
                            IF rssi = RSSI_NOVALUE THEN NULL ELSE itoa(2 * rssi - 113), 1)
                  EXCEPT !.saved_rssi = rssi]
            ELSE t
        csq_ber(t, ber) ==
            IF ber # t.saved_ber
            THEN [mypublish(t, "ber",
                            IF ber >= Len(ber_values) THEN NULL ELSE ber_values[ber + 1], 1)
                  EXCEPT !.saved_ber = ber]
            ELSE t
        \* r1: strtoul(str+6, &endp, 0); the ber follows the comma at endp
        csq(t, r1) == csq_ber(csq_rssi(t, r1.val), strtoul(strfrom(r1.endp, 1)).val)
        prop(t, mqttname, value, pcache) == publish_received_property(t, mqttname, value, pcache)
        next(tok) == strtok(tok.rest, {","})
        copn_inc(t) == IF Live(t) THEN [t EXCEPT !.my_copn = @ + 1] ELSE t
        issue_at_copn(t) ==
            copn_inc(at_write(at_write(at_write(at_write(at_write(t,
                "at+cspn?", wr), "at+ccid", wr), "at+cimi", wr), "at+cnum", wr),
                "at+copn", wr))
        \* SIM card lost
        simcard(t) ==
            free_operators(mypublish(
                prop(prop(prop(prop(prop(prop(prop(t,
                    "number", "", "saved_number"),
                    "iccid", "", "saved_iccid"),
                    "imsi", "", "saved_imsi"),
                    "op", "", "saved_simop"),
                    "opid", "", "saved_simopid"),
                    "simop", "", "saved_simop"),
                    "simopid", "", "saved_simopid"),
                "ops", "", 0))
        \* upon request, the URC stat is prepended first, skip it
        stat(t, atcmd, tok) ==
            IF t.strq # <<>> /\ strcasecmp0(Head(t.strq).a, atcmd) THEN next(tok) ELSE tok
        loc_nt(t, tok, prio) ==
            publish_received_property_pri(t, "nt", ntstr(t, tokidx(tok.tok)), "saved_nt",
                                          prio, "pri_nt")
        loc_cellid(t, tok, prio, prio_nt) ==
            loc_nt(publish_received_property_pri(t, "cellid", htod(tok.tok), "saved_cellid",
                                                 prio, "pri_cellid"),
                   next(tok), prio_nt)
        loc_lac(t, tok, prio, prio_nt) ==
            loc_cellid(publish_received_property_pri(t, "lac", htod(tok.tok), "saved_lac",
                                                     prio, "pri_lac"),
                       next(tok), prio, prio_nt)
        creg_op(t, idx) ==
            IF ~Live(t) \/ t.ret = 0 THEN t
            ELSE IF idx \in {1, 3, 5} THEN at_write(t, "at+cops?", wr)
            ELSE prop(prop(t, "op", "", "saved_op"), "opid", "", "saved_op")
        creg(t, tok) ==
            loc_lac(creg_op(prop(t, "reg", cregstr(tokidx(tok.tok)), "saved_reg"),
                            tokidx(tok.tok)),
                    next(tok), PRI_CREG, PRI_CREG)
        cgreg(t, tok) ==
            loc_lac(prop(t, "greg", cregstr(tokidx(tok.tok)), "saved_greg"),
                    next(tok), PRI_CGREG, PRI_CREG)
        \* at+cops? : mode,format,"operator",tech
        cops_op(t, j) ==
            IF Live(t) /\ j # 0 THEN prop(t, "op", t.operators[j].name, "saved_op") ELSE t
        cops_opid(t) == cops_op(t, opid_to_operator(t, t.saved_opid))
        cops(t, tok) ==
            loc_nt(cops_opid(prop(t, "opid", strip_quotes(tok.tok), "saved_opid")),
                   next(tok), PRI_COPS)
        copn_op(t, op) ==
            IF Live(t) /\ t.saved_opid # NULL /\ t.saved_op = NULL
               /\ strcmp0(t.saved_opid, op.id)
            THEN prop(t, "op", op.name, "saved_op")
            ELSE t
        copn_simop(t, op) ==
            IF Live(t) /\ t.saved_simop = NULL
            THEN prop(t, "simop", op.name, "saved_simop")
            ELSE t
        copn_sim(t, op) ==
            IF Live(t) /\ t.saved_simopid = NULL /\ t.saved_imsi # NULL
               /\ strncmp0(t.saved_imsi, op.id, Len(op.id))
            THEN copn_simop(prop(t, "simopid", op.id, "saved_simopid"), op)
            ELSE t
        copn_added(t) ==
            IF Live(t) THEN copn_op(copn_sim(t, t.operators[t.ret]), t.operators[t.ret])
            ELSE t
        copn_name(t, num, tok) ==
            copn_added(add_operator(t, num,
                                    IF strip_quotes(tok.tok) = NULL THEN num
                                    ELSE strip_quotes(tok.tok)))
        copn(t, tok) == copn_name(t, OrEmpty(strip_quotes(tok.tok)), next(tok))
        info(t, mqttname, pcache) ==
            prop(t, mqttname, strip_quotes(strtok(strfrom(str, 7), {","}).tok), pcache)
    IN  IF ~Live(s) \/ str = NULL THEN s
        ELSE IF strncasecmp0(str, "+cpin: ", 7) THEN
            IF strcasecmp0(strfrom(str, 7), "ready") THEN
                IF O_SIMCOM \in s.options
                THEN libt_add_timeout(s, "simcom_fake_pbdone")
                ELSE issue_at_copn(s)
            ELSE s
        ELSE IF strcasecmp0(str, "PB DONE") THEN
            issue_at_copn([s EXCEPT !.pbdone_seen = 1])
        ELSE IF strcasecmp0(str, "+simcard: not available") THEN simcard(s)
        ELSE IF strncasecmp0(str, "+cspn: ", 7) THEN info(s, "simop", "saved_simop")
        ELSE IF strncasecmp0(str, "+ccid: ", 7) THEN
            prop(s, "iccid", strip_quotes(strfrom(str, 7)), "saved_iccid")
        ELSE IF strncasecmp0(str, "+cnum: ", 7) THEN
            \* parse 'label,number,type'
            prop(s, "number", strip_quotes(next(strtok(strfrom(str, 7), {","})).tok),
                 "saved_number")
        ELSE IF strncasecmp0(str, "+creg: ", 7) THEN
            creg(s, stat(s, "at+creg?", strtok(strfrom(str, 7), {","})))
        ELSE IF strncasecmp0(str, "+cgreg: ", 8) THEN
            cgreg(s, stat(s, "at+cgreg?", strtok(strfrom(str, 7), {","})))
        ELSE IF strncasecmp0(str, "+csq: ", 6) THEN csq(s, strtoul(strfrom(str, 6)))
        ELSE IF strncasecmp0(str, "+cops: ", 7) THEN
            \* the operator list of at+cops=? (a scan) is left out
            IF CharAt(str, 8) = "(" THEN s
            ELSE cops(s, next(next(strtok(strfrom(str, 7), {","}))))
        ELSE IF strncasecmp0(str, "+copn: ", 7) THEN copn(s, strtok(strfrom(str, 7), {","}))
        ELSE IF strncasecmp0(str, "+cgmi: ", 7) THEN info(s, "brand", "saved_brand")
        ELSE IF strncasecmp0(str, "+cgmm: ", 7) THEN info(s, "model", "saved_model")
        ELSE IF strncasecmp0(str, "+cgmr: ", 7) THEN info(s, "rev", "saved_rev")
        ELSE IF strncasecmp0(str, "+cgsn: ", 7) THEN info(s, "imei", "saved_imei")
        ELSE IF strncasecmp0(str, "+ceer: ", 7) THEN mypublish(s, "warn", strfrom(str, 7), 0)
        ELSE s

\* at_recvd_response(argc, argv): args[1] is argv[0], the command
at_recvd_response(s, args) ==
    LET cimi_simopid(t, op) ==
            IF Live(t) /\ t.saved_simopid = NULL
            THEN publish_received_property(t, "simopid", op.id, "saved_simopid")
            ELSE t
        cimi_op(t, j) ==
            IF Live(t) /\ j # 0
            THEN cimi_simopid(publish_received_property(t, "simop", t.operators[j].name,
                                                        "saved_simop"),
                              t.operators[j])
            ELSE t
        cimi(t) == cimi_op(t, imsi_to_operator(t, t.saved_imsi))
    IN
    IF ~Live(s) THEN s
    ELSE IF ~strncasecmp0(args[1], "at", 2) THEN s
    ELSE IF ~strcmp0(Last(args), "OK") THEN
        mylog(mypublish_change(s, "fail", args[1] \o ": " \o Last(args), 0, "saved_fail"),
              LOG_WARNING, "")
    ELSE IF strcasecmp0(args[1], "at+cimi") THEN
        cimi(publish_received_property(s, "imsi", strip_quotes(args[2]), "saved_imsi"))
    ELSE IF strcasecmp0(args[1], "at+copn") THEN
        \* stop blocking copn info; operator not found in list: take 5
        \* characters from IMSI
        IF s.saved_imsi # NULL /\ s.saved_simopid = NULL
        THEN publish_received_property([s EXCEPT !.my_copn = IF @ > 1 THEN @ - 1 ELSE 0],
                                       "simopid", strnprefix(s.saved_imsi, 5),
                                       "saved_simopid")
        ELSE [s EXCEPT !.my_copn = IF @ > 1 THEN @ - 1 ELSE 0]
    ELSE IF strcasecmp0(args[1], "at+cgmi") THEN
        IF Len(args) > 2
        THEN publish_received_property(s, "brand", strip_quotes(args[2]), "saved_brand")
        ELSE s
    ELSE IF strcasecmp0(args[1], "at+cgmm") THEN
        IF Len(args) > 2
        THEN publish_received_property(s, "model", strip_quotes(args[2]), "saved_model")
        ELSE s
    ELSE IF strcasecmp0(args[1], "at+cgmr") THEN
        IF Len(args) > 2
        THEN publish_received_property(s, "rev", strip_quotes(args[2]), "saved_rev")
        ELSE s
    ELSE IF strcasecmp0(args[1], "at+cgsn") THEN
        IF Len(args) > 2
        THEN publish_received_property(s, "imei", strip_quotes(args[2]), "saved_imei")
        ELSE s
    ELSE s

(* ------------------------------------------------------------------ *)
(* attomqtt: at_recvd, one received line at a time                     *)
(* ------------------------------------------------------------------ *)
IsTerminator(str) ==
    \/ strcmp0(str, "OK")
    \/ strncmp0(str, "+CME ERROR", 10)
    \/ strcmp0(str, "ABORT")
    \/ strcmp0(str, "ERROR")

EndsWithDone(str) == Len(str) >= 5 /\ strcmp0(strfrom(str, Len(str) - 5), " DONE")

\* a plausible slip: the timeout counter is not reset
at_recvd_collect_keepcount(s, str, wr) ==
    LET a1 == Append(s.argv, str)
        skip  == IF s.strq # <<>> THEN 0 ELSE 1
        argv0 == IF s.strq # <<>> THEN Head(s.strq).a ELSE ""
        \* argv + skip
        args  == SubSeq(<<argv0>> \o a1, skip + 1, Len(a1) + 1)
        response(t, av) == IF t.ignore_responses > 0
                           THEN [t EXCEPT !.ignore_responses = @ - 1]
                           ELSE at_recvd_response(t, av)
        s1 == [response(mypublish(s, "raw/at", tabjoin(args), 0), args) EXCEPT !.argv = <<>>]
        s2 == [libt_remove_timeout(s1, "at_timeout") EXCEPT !.nsubsequenttimeouts = @]
    IN  IF ~Live(s) THEN s
        ELSE IF IsTerminator(str) THEN at_next_cmd(pop_strq(s2), wr)
        ELSE IF Len(a1) + 1 >= NARGV - 1 THEN
            [s EXCEPT !.argv = [SubSeq(a1, 1, Len(a1) - 1) EXCEPT ![Len(a1) - 1] = "..."]]
        ELSE [s EXCEPT !.argv = a1]

\* a plausible slip: the marker is written without --argc
at_recvd_collect_nodec(s, str, wr) ==
    LET a1 == Append(s.argv, str)
        skip  == IF s.strq # <<>> THEN 0 ELSE 1
        argv0 == IF s.strq # <<>> THEN Head(s.strq).a ELSE ""
        \* argv + skip
        args  == SubSeq(<<argv0>> \o a1, skip + 1, Len(a1) + 1)
        response(t, av) == IF t.ignore_responses > 0
                           THEN [t EXCEPT !.ignore_responses = @ - 1]
                           ELSE at_recvd_response(t, av)
        s1 == [response(mypublish(s, "raw/at", tabjoin(args), 0), args) EXCEPT !.argv = <<>>]
        s2 == [libt_remove_timeout(s1, "at_timeout") EXCEPT !.nsubsequenttimeouts = 0]
    IN  IF ~Live(s) THEN s
        ELSE IF IsTerminator(str) THEN at_next_cmd(pop_strq(s2), wr)
        ELSE IF Len(a1) + 1 >= NARGV - 1 THEN
            [s EXCEPT !.argv = [a1 EXCEPT ![Len(a1)] = "..."]]
        ELSE [s EXCEPT !.argv = a1]

\* "collect response" and what follows it in the loop body
at_recvd_collect(s, str, wr) ==
    LET a1 == Append(s.argv, str)
        skip  == IF s.strq # <<>> THEN 0 ELSE 1
        argv0 == IF s.strq # <<>> THEN Head(s.strq).a ELSE ""
        \* argv + skip
        args  == SubSeq(<<argv0>> \o a1, skip + 1, Len(a1) + 1)
        response(t, av) == IF t.ignore_responses > 0
                           THEN [t EXCEPT !.ignore_responses = @ - 1]
                           ELSE at_recvd_response(t, av)
        s1 == [response(mypublish(s, "raw/at", tabjoin(args), 0), args) EXCEPT !.argv = <<>>]
        s2 == [libt_remove_timeout(s1, "at_timeout") EXCEPT !.nsubsequenttimeouts = 0]
    IN  IF ~Live(s) THEN s
        ELSE IF IsTerminator(str) THEN at_next_cmd(pop_strq(s2), wr)
        ELSE IF Len(a1) + 1 >= NARGV - 1 THEN
            [s EXCEPT !.argv = [SubSeq(a1, 1, Len(a1) - 1) EXCEPT ![Len(a1) - 1] = "..."]]
        ELSE [s EXCEPT !.argv = a1]

\* a plausible slip: information lines are collected with the response
at_recvd_line_collect_info(s, str, wr) ==
    LET ceer(t) == IF O_CEER \in t.options THEN at_ifnotqueued(t, "at+ceer", wr) ELSE t
    IN
    IF ~Live(s) \/ str = "" THEN s
    ELSE IF strcasecmp0(str, "NO CARRIER") THEN
        at_recvd_info(ceer(mypublish(s, "raw/at", str, 0)), str, wr)
    ELSE IF strncmp0(str, "+CME ERROR", 10) \/ strcmp0(str, "ERROR") THEN
        at_recvd_collect(ceer(s), str, wr)
    ELSE IF s.strq = <<>> THEN
        mypublish(s, "raw/at", str, 0)
    ELSE at_recvd_collect(at_recvd_info(s, str, wr), str, wr)

\* the body of the for loop of at_recvd for one complete line str
at_recvd_line(s, str, wr) ==
    LET ceer(t) == IF O_CEER \in t.options THEN at_ifnotqueued(t, "at+ceer", wr) ELSE t
    IN
    IF ~Live(s) \/ str = "" THEN s
    ELSE IF strcasecmp0(str, "NO CARRIER") THEN
        at_recvd_info(ceer(mypublish(s, "raw/at", str, 0)), str, wr)
    ELSE IF strncmp0(str, "+CME ERROR", 10) \/ strcmp0(str, "ERROR") THEN
        at_recvd_collect(ceer(s), str, wr)
    ELSE IF strncmp0(str, "+CFTPSGET: DATA,", 16) THEN
        LET ftpsget(t, siz) ==
                [(IF (siz = 0) # (t.receiving = 0)
                  THEN mypublish(t, "raw/ftpsget", IF siz # 0 THEN "pending" ELSE NULL, 0)
                  ELSE t)
                 EXCEPT !.receiving = siz]
        IN  ftpsget(s, strtoul(strfrom(str, 16)).val)
    ELSE IF CharAt(str, 1) \in {"+", "*"}
            \/ (O_SIMCOM \in s.options /\ EndsWithDone(str)) THEN
        at_recvd_info(IF ~strncasecmp0(str, "+copn: ", 7) \/ s.my_copn = 0
                      THEN mypublish(s, "raw/at", str, 0)
                      ELSE s,
                      str, wr)
    ELSE IF s.strq = <<>> THEN
        mypublish(s, "raw/at", str, 0)
    ELSE at_recvd_collect(s, str, wr)

\* the libt callback that fakes PB DONE
simcom_fake_pbdone(s, wr) ==
    IF ~Live(s) THEN s
    ELSE IF s.pbdone_seen = 0 THEN at_recvd_info(s, "PB DONE", wr)
    ELSE s

(* ------------------------------------------------------------------ *)
(* attomqtt: main                                                      *)
(* ------------------------------------------------------------------ *)
\* at_creg / at_cgreg / at_csq / at_cops: periodic pollers
at_poll(s, fn, atcmd, wr) == libt_add_timeout(at_ifnotqueued(s, atcmd, wr), fn)
at_csq(s, wr) == at_poll(s, "at_csq", "at+csq", wr)

\* sprintf(myuuid, "%i-%li-%i", getpid(), time(NULL), rand())
SelfSyncToken == "4711-1541462400-1804289383"

send_self_sync(s) ==
    IF ~Live(s) THEN s
    ELSE [s EXCEPT !.myuuid = SelfSyncToken,
                   !.pub = Append(@, <<SelfSyncTopic, SelfSyncToken, 0>>)]

\* a plausible slip: any message on the self-sync topic counts
is_self_sync_any(s, topic, payload) == strcmp0(topic, SelfSyncTopic)

is_self_sync(s, topic, payload) ==
    strcmp0(topic, SelfSyncTopic) /\ strcmp0(s.myuuid, OrEmpty(payload))

\* main() up to the for (;;) loop, after option parsing
main_start(opts, chopts, wr) ==
    LET s0 == [pc |-> "loop", exitcode |-> -1, options |-> opts,
               changed_options |-> chopts, strq |-> <<>>, timeouts |-> {},
               nsuccessiveblocks |-> 0, nsubsequenttimeouts |-> 0,
               ignore_responses |-> 0, argv |-> <<>>, receiving |-> 0, my_copn |-> 0,
               pbdone_seen |-> 0,
               saved_rssi |-> RSSI_NOVALUE, saved_ber |-> RSSI_NOVALUE,
               saved_brand |-> NULL, saved_model |-> NULL, saved_rev |-> NULL,
               saved_imei |-> NULL, saved_fail |-> NULL,
               saved_op |-> NULL, saved_opid |-> NULL, saved_nt |-> NULL,
               saved_lac |-> NULL, saved_cellid |-> NULL, saved_reg |-> NULL,
               saved_greg |-> NULL, saved_iccid |-> NULL, saved_imsi |-> NULL,
               saved_number |-> NULL, saved_simop |-> NULL, saved_simopid |-> NULL,
               pri_lac |-> 0, pri_cellid |-> 0, pri_nt |-> 0, operators |-> <<>>,
               myuuid |-> "", ready |-> 0,
               pub |-> <<>>, ret |-> 0, h_nenq |-> 0, h_nstart |-> 0, h_wlast |-> 0,
               h_nwrites |-> 0, h_cause |-> ""]
        w(t, cmd) == at_write(t, cmd, wr)
        \* ignore_responses = 1: the echo of "at"
        ign(t) == IF Live(t) THEN [t EXCEPT !.ignore_responses = 1] ELSE t
        csq(t) == IF O_CSQ \in t.options THEN at_csq(t, wr) ELSE at_write(t, "at+csq", wr)
        clr(t, topic) == mypublish(t, topic, NULL, 1)
        \* clear potentially retained values in the broker
        clrs(t) ==
            clr(clr(clr(clr(clr(clr(clr(clr(clr(
            clr(clr(clr(clr(clr(clr(clr(clr(clr(t,
                "rssi"), "ber"), "op"), "opid"), "nt"), "reg"), "greg"), "cellid"), "lac"),
                "imsi"), "iccid"), "number"), "simop"), "simopid"), "brand"), "model"),
                "rev"), "imei")
        loop(t) == [t EXCEPT !.h_nstart = t.h_nenq]
    IN  loop(mypublish(clrs(
            w(w(csq(w(w(w(
            w(w(w(w(
            w(ign(w(s0, "at")), "ate0"),
                "at+cgmi"), "at+cgmm"), "at+cgmr"), "at+cgsn"),
                "at+cpin?"), "at+creg?"), "at+cgreg?")), "at+cops=3,2"), "at+cops?")),
            "ops", "", 1))

\* main(): from the label done to the return
main_done(s, cause) ==
    LET \* publish an empty retained value for what was published before
        clr(t, saved, novalue, topic) ==
            IF t[saved] # novalue THEN mypublish(t, topic, NULL, 1) ELSE t
        c1 == clr(clr([s EXCEPT !.h_cause = cause], "saved_rssi", RSSI_NOVALUE, "rssi"),
                  "saved_ber", RSSI_NOVALUE, "ber")
        c2 == clr(clr(clr(clr(clr(clr(clr(c1,
                  "saved_op", NULL, "op"), "saved_opid", NULL, "opid"),
                  "saved_nt", NULL, "nt"), "saved_reg", NULL, "reg"),
                  "saved_greg", NULL, "greg"), "saved_lac", NULL, "lac"),
                  "saved_cellid", NULL, "cellid")
        c3 == clr(clr(clr(clr(clr(c2,
                  "saved_imsi", NULL, "imsi"), "saved_iccid", NULL, "iccid"),
                  "saved_number", NULL, "number"), "saved_simop", NULL, "simop"),
                  "saved_simopid", NULL, "simopid")
        c4 == clr(clr(clr(clr(c3, "saved_brand", NULL, "brand"), "saved_model", NULL, "model"),
                      "saved_rev", NULL, "rev"), "saved_imei", NULL, "imei")
        \* while (!ready): leave at once when the self-sync is already back
        sync(t) == IF t.ready # 0 THEN exit(t, 0, cause) ELSE [t EXCEPT !.pc = "selfsync"]
    IN  IF ~Live(s) THEN s
        ELSE sync(send_self_sync(mypublish(c4, "ops", "", 0)))

(* ------------------------------------------------------------------ *)
(* attomqtt: the event loop                                            *)
(* ------------------------------------------------------------------ *)
\* An environment E bounds what the outside world does in a run:
\*   E.cmdlines  option sets given on the command line
\*   E.lines     lines the modem sends
\*   E.wr        results of writev on the TTY
\*   E.blocks    EAGAIN is only returned while nsuccessiveblocks < E.blocks
\*   E.rawsend   payloads published on raw/send
CmdlineDefault == [opts |-> {O_CEER}, ch |-> {}]
CmdlineCsq == [opts |-> {O_CEER, O_CSQ}, ch |-> {O_CSQ}]
CmdlineNoCeer == [opts |-> {}, ch |-> {O_CEER}]

\* a handler runs to completion and leaves at most MaxCmds commands added
\* after startup
AtStep(r, last) ==
    /\ r.h_nenq <= r.h_nstart + MaxCmds
    /\ AtCommit(r, last)
    /\ UNCHANGED <<wifi, ins, rx, h_seq, h_npub>>

\* the results writev may have in environment E in the current state
Writev(E) == {wr \in E.wr : wr = "EAGAIN" => nsuccessiveblocks < E.blocks}

HeadText == IF strq = <<>> THEN "" ELSE Head(strq).a
\* what is remembered of a handler: its input, and the queue head and
\* ignore_responses it found
Call(op, arg) == [op |-> op, arg |-> arg, head |-> HeadText, ign |-> ignore_responses]

AtInit(E) ==
    \E c \in E.cmdlines, wr \in E.wr :
        \E r \in {main_start(c.opts, c.ch, wr)} :
        /\ at_pc = r.pc /\ at_exitcode = r.exitcode /\ options = r.options
        /\ changed_options = r.changed_options /\ strq = r.strq
        /\ timeouts = r.timeouts /\ nsuccessiveblocks = r.nsuccessiveblocks
        /\ nsubsequenttimeouts = r.nsubsequenttimeouts
        /\ ignore_responses = r.ignore_responses /\ argv = r.argv
        /\ receiving = r.receiving /\ my_copn = r.my_copn
        /\ pbdone_seen = r.pbdone_seen
        /\ saved_rssi = r.saved_rssi /\ saved_ber = r.saved_ber
        /\ saved_brand = r.saved_brand /\ saved_model = r.saved_model
        /\ saved_rev = r.saved_rev /\ saved_imei = r.saved_imei
        /\ saved_fail = r.saved_fail /\ myuuid = r.myuuid /\ ready = r.ready
        /\ saved_op = r.saved_op /\ saved_opid = r.saved_opid /\ saved_nt = r.saved_nt
        /\ saved_lac = r.saved_lac /\ saved_cellid = r.saved_cellid
        /\ saved_reg = r.saved_reg /\ saved_greg = r.saved_greg
        /\ saved_iccid = r.saved_iccid /\ saved_imsi = r.saved_imsi
        /\ saved_number = r.saved_number /\ saved_simop = r.saved_simop
        /\ saved_simopid = r.saved_simopid
        /\ pri_lac = r.pri_lac /\ pri_cellid = r.pri_cellid /\ pri_nt = r.pri_nt
        /\ operators = r.operators
        /\ h_val = [topic \in PropTopics |-> Retained(r.pub, topic, NULL)]
        /\ h_sync = <<>>
        /\ pub = r.pub /\ h_nenq = r.h_nenq /\ h_nstart = r.h_nstart
        /\ h_wlast = r.h_wlast /\ h_nwrites = r.h_nwrites
        /\ h_cause = r.h_cause
        /\ h_last = [op |-> "main", arg |-> "", head |-> "", ign |-> 0]

\* read(atsock) delivered one complete line
AtRecvdLine(E) ==
    /\ at_pc = "loop"
    /\ \E str \in E.lines, wr \in Writev(E) :
        /\ (~IsTerminator(str) /\ CharAt(str, 1) \notin {"+", "*"}
            /\ ~strcasecmp0(str, "NO CARRIER")) => Len(argv) < MaxResp
        /\ AtStep(at_recvd_line(AtS, str, wr),
                    Call("at_recvd", str))

\* the lines of a long listing, e.g. the files at+fsls reports
ListLine(i) == "file" \o itoa(i)
\* the line of the listing the modem sends next: the one after the line read
\* last, the first one when the last read was something else
NextLine ==
    IF h_last.op = "at_recvd" /\ \E k \in 1..MaxLines : h_last.arg = ListLine(k)
    THEN 1 + CHOOSE k \in 1..MaxLines : h_last.arg = ListLine(k)
    ELSE 1
\* read(atsock) delivered the next line of a listing that answers the head
AtRecvdListing ==
    /\ at_pc = "loop" /\ strq # <<>>
    /\ NextLine <= MaxLines
    /\ AtStep(at_recvd_line(AtS, ListLine(NextLine), "ok"),
              Call("at_recvd", ListLine(NextLine)))

\* read(atsock) returned 0: at_recvd("") flushes an unterminated last line
AtEof(E) ==
    /\ at_pc = "loop"
    /\ \E str \in {"", "OK"}, wr \in Writev(E) :
        /\ AtStep(main_done(mylog(at_recvd_line(AtS, str, wr), LOG_WARNING, ""), "EOF"),
                    Call("eof", str))

\* libt_flush runs at_timeout
AtTimeout(E) ==
    /\ at_pc = "loop"
    /\ "at_timeout" \in timeouts
    /\ \E wr \in Writev(E) :
        LET s0 == [AtS EXCEPT !.timeouts = @ \ {"at_timeout"}] IN
        AtStep(IF strq = <<>> THEN exit(s0, 139, "SIGSEGV") ELSE at_timeout(s0, wr),
                 Call("at_timeout", ""))

\* libt_flush runs at_next_cmd
AtNextCmd(E) ==
    /\ at_pc = "loop"
    /\ "at_next_cmd" \in timeouts
    /\ \E wr \in Writev(E) :
        AtStep(at_next_cmd([AtS EXCEPT !.timeouts = @ \ {"at_next_cmd"}], wr),
                 Call("at_next_cmd", ""))

\* libt_flush runs at_csq
AtCsq(E) ==
    /\ at_pc = "loop"
    /\ "at_csq" \in timeouts
    /\ \E wr \in Writev(E) :
        AtStep(at_csq([AtS EXCEPT !.timeouts = @ \ {"at_csq"}], wr),
                 Call("at_csq", ""))

\* my_mqtt_msg for <prefix>raw/send
AtMqttRawSend(E) ==
    /\ at_pc \in {"loop", "selfsync"}
    /\ \E payload \in E.rawsend, wr \in Writev(E) :
        AtStep(at_write(AtS, payload, wr),
                 Call("raw/send", payload))

\* my_mqtt_msg for tmp/selfsync, and the while (!ready) test after it
AtMqttSelfSync ==
    /\ at_pc = "selfsync"
    /\ \E payload \in {SelfSyncToken, "0-0-0"} :
        LET msg(t) == IF is_self_sync(t, SelfSyncTopic, payload)
                      THEN [t EXCEPT !.ready = 1] ELSE t
            sync(t) == IF t.ready # 0 THEN exit(t, 0, t.h_cause) ELSE t
        IN  AtStep(sync(msg(AtS)), Call("selfsync", payload))

\* SIGINT or SIGTERM read from the signalfd
AtSignal ==
    /\ at_pc = "loop"
    /\ AtStep(main_done(AtS, "signal"),
                Call("signal", ""))

\* the broker connection is lost: exit(1) in the main loop after
\* mosquitto_loop_read, mylog(LOG_ERR) after mosquitto_loop in the done path
AtBrokerLost ==
    /\ at_pc \in {"loop", "selfsync"}
    /\ AtStep(IF at_pc = "loop" THEN exit(AtS, 1, "broker")
                ELSE mylog(AtS, LOG_ERR, "broker"),
                Call("broker", ""))

(* ------------------------------------------------------------------ *)
(* wifitomqtt: globals, queue, publishing                              *)
(* ------------------------------------------------------------------ *)
iface == "wlan0"
\* topicfmt("net/%s/<leaf>", iface)
topicfmt(leaf) == "net/" \o iface \o "/" \o leaf

\* wifitomqtt.c has its own add_strq / pop_strq; entries are [a, id]
wifi_add_strq_front(s, a) ==
    IF ~Live(s) THEN s
    ELSE [s EXCEPT !.strq = <<[a |-> a, id |-> s.h_nsent + 1]>> \o @]

wifi_add_strq(s, a) ==
    IF ~Live(s) THEN s
    ELSE [s EXCEPT !.strq = Append(@, [a |-> a, id |-> s.h_nsent + 1])]

\* a NULL struct str pointer
NoStr == [a |-> NULL, id |-> 0]

\* head = pop_strq(): the entry is left in s.head, NULL when the queue is empty
wifi_pop_strq(s) ==
    IF ~Live(s) THEN s
    ELSE IF s.strq = <<>> THEN [s EXCEPT !.head = NoStr]
    ELSE [s EXCEPT !.head = Head(s.strq), !.strq = Tail(@)]

publish_value(s, value, topic) == mypublish(s, topic, value, 1)

\* strtol(s, NULL, 0) on decimal text
strtol(s) == IF s # "" /\ CharAt(s, 1) = "-" THEN 0 - strtoul(strfrom(s, 1)).val
             ELSE strtoul(s).val

publish_ivalue_if_different(s, newvalue, saved, topic) ==
    LET differ(t, newivalue) ==
            IF newivalue = t[saved] THEN t
            ELSE [mypublish(t, topic, itoa(newivalue), 1) EXCEPT ![saved] = newivalue]
    IN  IF ~Live(s) THEN s ELSE differ(s, strtol(OrEmpty(newvalue)))

publish_failure(s, value) == mypublish(s, topicfmt("fail"), value, 0)

BF_DISABLED == "disabled"

\* is_mode_off without the mode filter
is_mode_off_any(s) ==
    /\ s.networks # <<>>
    /\ \A j \in 1..Len(s.networks) : BF_DISABLED \in s.networks[j].flags

is_mode_off(s) ==
    LET nets == {j \in 1..Len(s.networks) :
                    ~(s.selectedmode >= 0 /\ s.networks[j].mode # s.selectedmode)}
        ndis == Cardinality({j \in nets : BF_DISABLED \in s.networks[j].flags})
    IN  Cardinality(nets) # 0 /\ ndis >= Cardinality(nets)

set_wifi_state(s, str) ==
    LET \* if (saved_x) publish_value(NULL, ...); saved_x = 0;
        clr(t, saved, leaf) ==
            [(IF t[saved] # 0 THEN publish_value(t, NULL, topicfmt(leaf)) ELSE t)
             EXCEPT ![saved] = 0]
        station(t) == IF strcmp0(str, "station")
                      THEN clr(clr(t, "saved_speed", "speed"), "saved_rssi", "rssi")
                      ELSE t
        publish(t, str2) ==
            IF strcmp0(str2, OrEmpty(t.pub_wifi_state)) THEN t
            ELSE [publish_value(t, str2, topicfmt("wifistate"))
                  EXCEPT !.pub_wifi_state = str2]
        \* publish mode 'off' if all is disabled
        modeoff(t) == publish(t, IF is_mode_off(t) THEN "off" ELSE str)
    IN  IF ~Live(s) THEN s
        \* strcmp(NULL, "station")
        ELSE IF str = NULL
        THEN exit([s EXCEPT !.real_wifi_state = str], 139, "set_wifi_state(NULL)")
        ELSE modeoff(station([s EXCEPT !.real_wifi_state = str, !.h_state_set = 1]))

set_wifi_stations(s, n) ==
    IF ~Live(s) THEN s
    ELSE publish_value([s EXCEPT !.nstations = n],
                       IF n < 0 THEN "" ELSE itoa(n), topicfmt("stations"))

\* wpa_send(line); snd is the result of send(2) on the control socket
wpa_send(s, line, snd) ==
    LET sent(t) == IF snd # "ok" THEN mylog(t, LOG_ERR, "send") ELSE t
        \* the supplicant holds the command from now on
        queued(t) ==
            IF Live(t)
            THEN [t EXCEPT !.h_nsent = @ + 1,
                           !.h_supp = Append(@, [a |-> line, id |-> t.h_nsent + 1])]
            ELSE t
    IN  IF ~Live(s) THEN s
        ELSE libt_add_timeout(libt_add_timeout(queued(wifi_add_strq(sent(s), line)),
                                               "wpa_cmd_timeout"), "wpa_keepalive")

\* a plausible slip: the timeout is logged and nothing else
wpa_cmd_timeout_logonly(s) == IF ~Live(s) THEN s ELSE mylog(s, LOG_WARNING, "")

wpa_cmd_timeout(s) ==
    IF ~Live(s) THEN s ELSE [mylog(s, LOG_WARNING, "") EXCEPT !.wpa_lost = 1]

wpa_keepalive(s, snd) ==
    LET poll(t) == IF t.curr_mode = 0 THEN wpa_send(t, "SIGNAL_POLL", snd) ELSE t
        ping(t) == IF t.curr_mode = 0 /\ t.curr_bssid # ""
                   THEN wpa_send(t, "BSS " \o t.curr_bssid, snd)
                   ELSE wpa_send(t, "PING", snd)
    IN  ping(poll(s))

(* ------------------------------------------------------------------ *)
(* wifitomqtt: the network table                                       *)
(* ------------------------------------------------------------------ *)
NF_SEL == "sel"
NF_REMOVE == "remove"

\* the digits and letters in the order of their codes
ASCII == "0123456789ABCDEFGHIJKLMNOPQRSTUVWXYZabcdefghijklmnopqrstuvwxyz"
ord(c) == IF \E i \in 1..Len(ASCII) : CharAt(ASCII, i) = c
          THEN CHOOSE i \in 1..Len(ASCII) : CharAt(ASCII, i) = c ELSE 0

\* strcmp(a, b) < 0
RECURSIVE strcmp_lt(_, _)
strcmp_lt(a, b) ==
    IF b = "" THEN FALSE
    ELSE IF a = "" THEN TRUE
    ELSE IF CharAt(a, 1) # CharAt(b, 1) THEN ord(CharAt(a, 1)) < ord(CharAt(b, 1))
    ELSE strcmp_lt(strfrom(a, 1), strfrom(b, 1))

\* the index of the network, 0 for NULL; bsearch over the sorted table
find_network_by_ssid(s, ssid) ==
    IF ssid = NULL \/ ~\E j \in 1..Len(s.networks) : s.networks[j].ssid = ssid THEN 0
    ELSE CHOOSE j \in 1..Len(s.networks) : s.networks[j].ssid = ssid

\* the index of the first network with that id, 0 for NULL
find_network_by_id(s, idx) ==
    LET hits == {j \in 1..Len(s.networks) : s.networks[j].id = idx}
    IN  IF hits = {} THEN 0 ELSE CHOOSE j \in hits : \A k \in hits : j <= k

\* the new record is the last of the table; memset(net, 0, sizeof(*net))
add_network(s, num, ssid) ==
    IF ~Live(s) THEN s
    ELSE [s EXCEPT !.networks = Append(@, [id |-> num, ssid |-> ssid, netflags |-> {},
                                           flags |-> {}, mode |-> 0, createseq |-> 0,
                                           cfgs |-> <<>>])]

\* remove_network that leaves the table alone
remove_network_keep(s, net) == s

\* remove element, keep sorted; net is an index, 0 for NULL
remove_network(s, net) ==
    IF ~Live(s) \/ net = 0 THEN s
    ELSE [s EXCEPT !.networks = SubSeq(@, 1, net - 1) \o SubSeq(@, net + 1, Len(@))]

\* qsort by ssid; records of equal ssid keep their order
sort_networks(s) ==
    LET n == Len(s.networks)
        before(k, j) == \/ strcmp_lt(s.networks[k].ssid, s.networks[j].ssid)
                        \/ s.networks[k].ssid = s.networks[j].ssid /\ k < j
        rank(j) == Cardinality({k \in 1..n : before(k, j)}) + 1
    IN  IF ~Live(s) THEN s
        ELSE [s EXCEPT !.networks = [i \in 1..n |->
                                        s.networks[CHOOSE j \in 1..n : rank(j) = i]]]

\* repeat wifi state, maybe some networks were enabled/disabled
nets_enabled_changed(s) == IF ~Live(s) THEN s ELSE set_wifi_state(s, s.real_wifi_state)

\* struct bss: [bssid, ssid, freq, level, flags]; flags is the set of the
\* BF_ bits that are set
BF_WPA == "w"
BF_WEP == "W"
BF_EAP == "e"
BF_KNOWN == "k"
BF_PRESENT == "present"

\* bssflagsstr(bss): "wWekd", a '-' for each bit that is clear
bssflagsstr(bss) ==
    LET ind(bit, c) == IF bit \in bss.flags THEN c ELSE "-"
    IN  ind(BF_WPA, "w") \o ind(BF_WEP, "W") \o ind(BF_EAP, "e") \o ind(BF_KNOWN, "k")
            \o ind(BF_DISABLED, "d")

\* compute_network_flags(bss, net); bss is a record, net an index, 0 for NULL
compute_network_flags(s, bss, net) ==
    [bss EXCEPT !.flags = (@ \ {BF_KNOWN, BF_DISABLED})
                          \cup (IF net = 0 THEN {}
                                ELSE s.networks[net].flags \cup {BF_KNOWN})]

\* compute_flags(bss, flags); flags is the text of the flags= line or NULL
compute_flags(bss, flags) ==
    [bss EXCEPT !.flags = (@ \ {BF_WPA, BF_WEP, BF_EAP})
                          \cup {b \in {BF_WPA} : flags # NULL /\ strstr0(flags, "WPA")}
                          \cup {b \in {BF_WEP} : flags # NULL /\ strstr0(flags, "WEP")}
                          \cup {b \in {BF_EAP} : flags # NULL /\ strstr0(flags, "EAP")}]

add_ap(s, bssid, freq, level, ssid) ==
    [s EXCEPT !.bsss = Append(@, [bssid |-> bssid, ssid |-> ssid, freq |-> freq,
                                  level |-> level, flags |-> {}])]

\* remove_ap(bss); bss is an index, 0 for NULL. The elements behind bss move
\* down by memcpy, whose regions overlap once two or more elements move: the
\* tables of this model hold at most two entries, so at most one moves
remove_ap(s, bss) ==
    IF bss = 0 THEN s
    ELSE [s EXCEPT !.bsss = SubSeq(@, 1, bss - 1) \o SubSeq(@, bss + 1, Len(@))]

\* qsort by bssidcmp; the bssids of the table differ
sort_ap(s) ==
    LET n == Len(s.bsss)
        rank(j) == Cardinality({k \in 1..n : strcmp_lt(s.bsss[k].bssid, s.bsss[j].bssid)})
                   + 1
    IN  [s EXCEPT !.bsss = [i \in 1..n |-> s.bsss[CHOOSE j \in 1..n : rank(j) = i]]]

\* hide_ap_mqtt that leaves the ssid topic alone
hide_ap_mqtt_keepssid(s, bssid) ==
    publish_value(publish_value(publish_value(s,
        "", topicfmt("bss/" \o bssid \o "/freq")),
        "", topicfmt("bss/" \o bssid \o "/level")),
        "", topicfmt("bss/" \o bssid \o "/flags"))

hide_ap_mqtt(s, bssid) ==
    publish_value(publish_value(publish_value(publish_value(s,
        "", topicfmt("bss/" \o bssid \o "/freq")),
        "", topicfmt("bss/" \o bssid \o "/level")),
        "", topicfmt("bss/" \o bssid \o "/flags")),
        "", topicfmt("bss/" \o bssid \o "/ssid"))

\* network_changed(net, removing); net is an index into the table
network_changed(s, net, removing) ==
    LET \* find_last_network_mode(exclude, mode): the index of the network of
        \* that mode with the highest id, the first of them in the table, 0 for
        \* NULL
        best(t, nets) ==
            IF nets = {} THEN 0
            ELSE CHOOSE j \in nets :
                    \A k \in nets : \/ t.networks[k].id < t.networks[j].id
                                    \/ t.networks[k].id = t.networks[j].id /\ j <= k
        find_last_network_mode(t, exclude, mode) ==
            best(t, {j \in 1..Len(t.networks) :
                        j # exclude /\ t.networks[j].mode = mode})
        track(t, last, leaf, l) ==
            IF (IF l = 0 THEN -1 ELSE t.networks[l].id) = t[last] THEN t
            ELSE publish_value([t EXCEPT ![last] = IF l = 0 THEN -1 ELSE t.networks[l].id],
                               IF l = 0 THEN "" ELSE t.networks[l].ssid, topicfmt(leaf))
        \* keep track of 'lastAP'
        lastap(t) == track(t, "last_ap_id", "lastAP",
                           find_last_network_mode(t, IF removing # 0 THEN net ELSE 0, 2))
        \* same for lastmesh
        lastmesh(t) == track(t, "last_mesh_id", "lastmesh",
                             find_last_network_mode(t, IF removing # 0 THEN net ELSE 0, 5))
        \* the loop over the BSS table: the flags of every BSS of that ssid
        flagged(t, j, nb) ==
            IF t.bsss[j].ssid = NULL \/ ~strcmp0(t.bsss[j].ssid, t.networks[net].ssid)
               \/ nb.flags = t.bsss[j].flags
            THEN t
            ELSE publish_value([t EXCEPT !.bsss[j] = nb], bssflagsstr(nb),
                               topicfmt("bss/" \o nb.bssid \o "/flags"))
        RECURSIVE bssloop(_, _)
        bssloop(t, j) ==
            IF j > Len(t.bsss) THEN t
            ELSE bssloop(flagged(t, j, compute_network_flags(t, t.bsss[j],
                                           IF removing # 0 THEN 0 ELSE net)), j + 1)
    IN  IF ~Live(s) THEN s ELSE lastmesh(lastap(bssloop(s, 1)))

\* wpa_save_config that does not look at the queue
wpa_save_config_always(s, snd) == wpa_send(s, "SAVE_CONFIG", snd)

\* SAVE_CONFIG unless a command that changes the configuration is still queued
wpa_save_config(s, snd) ==
    LET changing == {"SET_NETWORK", "ENABLE_NETWORK", "DISABLE_NETWORK",
                     "SELECT_NETWORK", "REMOVE_NETWORK", "ADD_NETWORK"}
    IN  IF ~Live(s) THEN s
        ELSE IF \E j \in 1..Len(s.strq) : \E c \in changing :
                    strncmp0(c, s.strq[j].a, Len(c))
        THEN s
        ELSE wpa_send(s, "SAVE_CONFIG", snd)

\* add_network_config(net, key, value); net is an index, 0 for NULL.
\* net->ncfgs of a NULL net and strdup(NULL) end the process
add_network_config(s, net, key, value, snd) ==
    IF ~Live(s) THEN s
    ELSE IF net # 0 /\ s.networks[net].id >= 0
    THEN wpa_send(s, "SET_NETWORK " \o itoa(s.networks[net].id) \o " " \o key \o " "
                     \o value, snd)
    ELSE IF net = 0 \/ value = NULL THEN exit(s, 139, "SIGSEGV")
    ELSE [s EXCEPT !.networks[net].cfgs = Append(@, <<key, value>>)]

\* find_or_create_ssid(ssid): the network is find_network_by_ssid(ssid) afterwards
find_or_create_ssid(s, ssid, snd) ==
    \* history: the record of ssid was created with command h_nsent
    LET created(t) == [t EXCEPT !.netcreateseq = @ + 1,
                                !.networks[Len(t.networks)].createseq = t.netcreateseq + 1,
                                !.h_created = Append(@, [ssid |-> ssid, cmd |-> t.h_nsent])]
        create(t) == IF Live(t) THEN sort_networks(created(add_network(t, -1, ssid)))
                     ELSE t
    IN  IF ~Live(s) \/ ssid = NULL \/ find_network_by_ssid(s, ssid) # 0 THEN s
        ELSE create(wpa_send(s, "ADD_NETWORK", snd))

(* ------------------------------------------------------------------ *)
(* wifitomqtt: wpa_recvd_pkt                                           *)
(* ------------------------------------------------------------------ *)
\* tok = strtok(line, "="); val = strtok(NULL, "=")
keyval(str) ==
    LET pair(t1) == [tok |-> t1.tok, val |-> strtok(t1.rest, {"="}).tok]
    IN  pair(strtok(str, {"="}))

\* valuetostr("%.3lfG", freq*1e-3)
RECURSIVE pad3(_)
pad3(str) == IF Len(str) >= 3 THEN str ELSE pad3("0" \o str)
freqtostr(freq) == itoa(freq \div 1000) \o "." \o pad3(itoa(freq % 1000)) \o "G"

\* find_ap_by_bssid(bssid) != NULL
find_ap_by_bssid(s, bssid) ==
    IF \E j \in 1..Len(s.bsss) : s.bsss[j].bssid = bssid
    THEN CHOOSE j \in 1..Len(s.bsss) : s.bsss[j].bssid = bssid
    ELSE 0

\* the <2>, <3>, <4> branch: an unsolicited event, line3 is line+3
wpa_recvd_event(s, line3, snd) ==
    LET \* strtok(NULL, " \t"); tok = strtok(NULL, " \t")
        third(rest) == strtok(strtok(rest, {" ", "\t"}).rest, {" ", "\t"}).tok
        seen(t) == IF Live(t) THEN [t EXCEPT !.have_bss_events = 1] ELSE t
        event(s0, tok, rest) ==
        IF tok = "CTRL-EVENT-CONNECTED" THEN
            wpa_send(IF s0.curr_mode = 0
                     THEN wpa_send(set_wifi_state(s0, "station"), "SIGNAL_POLL", snd)
                     ELSE s0,
                     "STATUS", snd)
        ELSE IF tok = "CTRL-EVENT-DISCONNECTED" THEN
            set_wifi_state(wpa_send(s0, "STATUS", snd), "none")
        ELSE IF tok = "AP-ENABLED" THEN
            set_wifi_stations(set_wifi_state([s0 EXCEPT !.curr_mode = 2], "AP"), 0)
        ELSE IF tok = "AP-DISABLED" THEN
            set_wifi_stations(wpa_send([s0 EXCEPT !.curr_mode = 0], "SCAN", snd), -1)
        ELSE IF tok \in {"AP-STA-CONNECTED", "MESH-PEER-CONNECTED"} THEN
            set_wifi_stations(s0, s0.nstations + 1)
        ELSE IF tok \in {"AP-STA-DISCONNECTED", "MESH-PEER-DISCONNECTED"} THEN
            set_wifi_stations(s0, s0.nstations - 1)
        ELSE IF tok = "MESH-GROUP-STARTED" THEN
            set_wifi_stations(set_wifi_state([s0 EXCEPT !.curr_mode = 5], "mesh"), 0)
        ELSE IF tok = "MESH-GROUP-REMOVED" THEN
            set_wifi_stations([s0 EXCEPT !.curr_mode = 0], -1)
        ELSE IF tok = "CTRL-EVENT-BSS-ADDED" THEN
            seen(wpa_send(s0, "BSS " \o third(rest), snd))
        ELSE IF tok = "CTRL-EVENT-BSS-REMOVED" THEN
            seen(hide_ap_mqtt(sort_ap(remove_ap(s0, find_ap_by_bssid(s0, third(rest)))),
                              third(rest)))
        ELSE IF tok = "CTRL-EVENT-SCAN-RESULTS" THEN
            IF s0.have_bss_events = 0 THEN wpa_send(s0, "SCAN_RESULTS", snd) ELSE s0
        ELSE s0
        start(s0, t1) == event(s0, t1.tok, t1.rest)
    IN  start(mypublish(s, "tmp/" \o iface \o "/wpa", line3, 0),
              strtok(line3, {" ", "\t"}))

\* the head is SIGNAL_POLL: lines of key=value
RECURSIVE wpa_signal_poll(_, _)
wpa_signal_poll(s, lines) ==
    LET line(t, kv) ==
            IF strcasecmp0(kv.tok, "rssi")
            THEN publish_ivalue_if_different(t, kv.val, "saved_rssi", topicfmt("rssi"))
            ELSE IF strcasecmp0(kv.tok, "linkspeed")
            THEN publish_ivalue_if_different(t, kv.val, "saved_speed", topicfmt("speed"))
            ELSE t
    IN  IF lines = <<>> THEN s
        ELSE wpa_signal_poll(line(s, keyval(Head(lines))), Tail(lines))

\* the value of the last line of lines whose key is key, NULL without one
RECURSIVE lastval(_, _)
lastval(lines, key) ==
    LET pick(kv) == IF kv.tok = key THEN kv.val
                    ELSE lastval(SubSeq(lines, 1, Len(lines) - 1), key)
    IN  IF lines = <<>> THEN NULL ELSE pick(keyval(Last(lines)))

\* the head is STATUS
wpa_status(s, lines, snd) ==
    LET \* what the loop over the lines leaves: the value of the last line of a key
        bssid(val) == IF val = NULL \/ strcmp0(val, "00:00:00:00:00:00") THEN "" ELSE val
        freqof(val) == IF val = NULL THEN 0 ELSE strtoul(val).val
        \* if (!pub_wifi_state): fix curr_mode and wifi_state
        fix(t, mode, wpastate) ==
            IF t.curr_mode = 2
            THEN set_wifi_stations(wpa_send(set_wifi_state(t, "AP"), "STA-FIRST", snd), 0)
            ELSE IF t.curr_mode = 5 THEN set_wifi_state(t, "mesh")
            ELSE IF strcmp0(OrEmpty(wpastate), "COMPLETED")
                    /\ strcmp0(OrEmpty(mode), "station")
            THEN publish_value(set_wifi_state(t, "station"), "", topicfmt("stations"))
            ELSE set_wifi_state(t, "none")
        started(t, mode, wpastate) ==
            IF t.pub_wifi_state # NULL THEN t
            ELSE fix([t EXCEPT !.curr_mode =
                         IF strcmp0(OrEmpty(mode), "AP") THEN 2
                         ELSE IF strcmp0(OrEmpty(mode), "mesh") THEN 5 ELSE @],
                     mode, wpastate)
        \* bss = find_ap_by_bssid(curr_bssid); if (bss) ...
        level(t, j) ==
            IF j = 0 THEN t
            ELSE [(IF t.curr_level # t.bsss[j].level
                   THEN publish_value(t, itoa(t.bsss[j].level), topicfmt("level"))
                   ELSE t)
                  EXCEPT !.curr_level = t.bsss[j].level]
        bss(t) == level(t, find_ap_by_bssid(t, t.curr_bssid))
        link(t, freq, ssid) ==
            IF freq # 0 /\ t.curr_mode # 0 THEN
                publish_value(publish_value(publish_value(t, freqtostr(freq),
                                                          topicfmt("freq")),
                                            "", topicfmt("level")), ssid, topicfmt("ssid"))
            ELSE IF freq # 0 /\ t.curr_bssid # "" THEN
                publish_value(bss(publish_value(t, freqtostr(freq), topicfmt("freq"))),
                              ssid, topicfmt("ssid"))
            ELSE
                [publish_value(publish_value(publish_value(t, "", topicfmt("freq")),
                                             "", topicfmt("level")), "", topicfmt("ssid"))
                 EXCEPT !.curr_level = 0]
        pubbssid(t) == publish_value(t, t.curr_bssid, topicfmt("bssid"))
    IN  IF ~Live(s) THEN s
        ELSE link(pubbssid(started([s EXCEPT !.curr_bssid = bssid(lastval(lines, "bssid"))],
                                   lastval(lines, "mode"), lastval(lines, "wpa_state"))),
                  freqof(lastval(lines, "freq")), lastval(lines, "ssid"))

\* wpa_recvd_pkt(line): lines are the lines of the datagram, none when it is empty
wpa_recvd_pkt(s, lines, snd) ==
    LET line == IF lines = <<>> THEN "" ELSE lines[1]
        \* net->flags with BF_DISABLED set or cleared
        disabled(flags, on) == IF on THEN flags \cup {BF_DISABLED}
                               ELSE flags \ {BF_DISABLED}
        \* SET_NETWORK <id> <prop> <value>: net is find_network_by_id(id)
        set_network(t, net, prop, value) ==
            IF net = 0 THEN t
            ELSE IF strcmp0(prop, "mode") THEN
                wpa_save_config(network_changed(
                    [t EXCEPT !.networks[net].mode = strtoul(value).val], net, 0), snd)
            ELSE IF strcmp0(prop, "disabled") THEN
                wpa_save_config(network_changed(nets_enabled_changed(
                    [t EXCEPT !.networks[net].flags = disabled(@, strcmp0(value, "1"))]),
                    net, 0), snd)
            ELSE wpa_save_config(t, snd)
        \* strtok(head->a, " ") and three times strtok(NULL, " ")
        set_arg3(t, id, prop, w) ==
            set_network(t, find_network_by_id(t, IF id = NULL THEN -1 ELSE strtoul(id).val),
                        OrEmpty(prop), OrEmpty(w.tok))
        set_arg2(t, id, w) == set_arg3(t, id, w.tok, strtok(w.rest, {" "}))
        set_arg1(t, w) == set_arg2(t, w.tok, strtok(w.rest, {" "}))
        set_arg0(t, w) == set_arg1(t, strtok(w.rest, {" "}))
        set_args(t, a) == set_arg0(t, strtok(a, {" "}))
        \* ADD_NETWORK: the id-less networks, and the oldest of them
        pending(t) == {j \in 1..Len(t.networks) : t.networks[j].id = -1}
        oldest(t, lps) ==
            IF lps = {} THEN 0
            ELSE CHOOSE j \in lps : \A k \in lps :
                    \/ t.networks[j].createseq < t.networks[k].createseq
                    \/ t.networks[j].createseq = t.networks[k].createseq /\ j <= k
        RECURSIVE flush(_, _, _, _)
        flush(t, id, cfgs, j) ==
            IF j > Len(cfgs) THEN t
            ELSE flush(wpa_send(t, "SET_NETWORK " \o itoa(id) \o " " \o cfgs[j][1] \o " "
                                   \o cfgs[j][2], snd), id, cfgs, j + 1)
        activate(t, net, id) ==
            IF NF_SEL \in t.networks[net].netflags
            THEN wpa_send(t, "SELECT_NETWORK " \o itoa(id), snd)
            ELSE IF BF_DISABLED \notin t.networks[net].flags
            \* enable station-mode networks automatically
            THEN wpa_send(t, "ENABLE_NETWORK " \o itoa(id), snd)
            ELSE t
        \* remove_network_configs(net)
        flushed(t, net, id) ==
            [flush(wpa_send(t, "SET_NETWORK " \o itoa(id) \o " ssid \"" \o t.networks[net].ssid
                               \o "\"", snd), id, t.networks[net].cfgs, 1)
             EXCEPT !.networks[net].cfgs = <<>>]
        bound(t, net, id) ==
            IF NF_REMOVE \in t.networks[net].netflags
            THEN nets_enabled_changed(remove_network(network_changed(
                     wpa_send(t, "REMOVE_NETWORK " \o itoa(id), snd), net, 1), net))
            ELSE nets_enabled_changed(activate(flushed(t, net, id), net, id))
        \* reset counter, and avoid potential overflows.
        reset(t, npending) == IF npending <= 1 THEN [t EXCEPT !.netcreateseq = 0] ELSE t
        added(t, net, npending, id) ==
            IF net = 0 THEN reset(t, npending)
            ELSE bound([reset(t, npending) EXCEPT !.networks[net].id = id], net, id)
        \* the loops of ENABLE_NETWORK all, DISABLE_NETWORK all and SELECT_NETWORK <idx>
        RECURSIVE flagloop(_, _, _, _)
        flagloop(t, j, what, idx) ==
            IF j > Len(t.networks) THEN t
            ELSE IF what = "select" THEN
                flagloop(network_changed(
                             [t EXCEPT !.networks[j].flags =
                                           disabled(@, t.networks[j].id # idx)], j, 0),
                         j + 1, what, idx)
            ELSE IF (what = "enable") = (BF_DISABLED \in t.networks[j].flags) THEN
                flagloop(network_changed(
                             [t EXCEPT !.networks[j].flags = disabled(@, what = "disable")],
                             j, 0),
                         j + 1, what, idx)
            ELSE flagloop(t, j + 1, what, idx)
        \* ENABLE_NETWORK <idx> and DISABLE_NETWORK <idx>
        enable(t, net, on) ==
            IF net = 0 THEN t
            ELSE nets_enabled_changed(wpa_save_config(network_changed(
                     [t EXCEPT !.networks[net].flags = disabled(@, on = 0)], net, 0), snd))
        \* SCAN_RESULTS: clear BF_PRESENT, query and mark every listed bssid,
        \* hide and remove every BSS left unmarked
        unmarked(t) ==
            [t EXCEPT !.bsss = [j \in 1..Len(@) |->
                                   [@[j] EXCEPT !.flags = @ \ {BF_PRESENT}]]]
        mark(t, bss) ==
            IF ~Live(t) \/ bss = 0 THEN t
            ELSE [t EXCEPT !.bsss[bss].flags = @ \cup {BF_PRESENT}]
        query(t, bssid) ==
            mark(wpa_send(t, "BSS " \o bssid, snd), find_ap_by_bssid(t, bssid))
        RECURSIVE scanlines(_, _)
        scanlines(t, ls) ==
            IF ls = <<>> \/ ~Live(t) THEN t
            ELSE IF strncmp0("bssid", Head(ls), 5) THEN scanlines(t, Tail(ls))
            ELSE scanlines(query(t, strtok(Head(ls), {"\t"}).tok), Tail(ls))
        RECURSIVE scandrop(_, _)
        scandrop(t, j) ==
            IF j > Len(t.bsss) \/ ~Live(t) THEN t
            ELSE IF BF_PRESENT \in t.bsss[j].flags THEN scandrop(t, j + 1)
            ELSE scandrop(remove_ap(hide_ap_mqtt(t, t.bsss[j].bssid), j), j)
        scan_results(t) == sort_ap(scandrop(scanlines(unmarked(t), lines), 1))
        \* BSS <bssid>: lines of key=value
        pubif(t, differ, value, topic) ==
            IF differ THEN publish_value(t, value, topic) ELSE t
        bssknown(t, j, nb) ==
            pubif(pubif(pubif([t EXCEPT !.bsss[j] = nb],
                              t.bsss[j].freq # nb.freq, freqtostr(nb.freq),
                              topicfmt("bss/" \o nb.bssid \o "/freq")),
                        t.bsss[j].level # nb.level, itoa(nb.level),
                        topicfmt("bss/" \o nb.bssid \o "/level")),
                  t.bsss[j].flags # nb.flags, bssflagsstr(nb),
                  topicfmt("bss/" \o nb.bssid \o "/flags"))
        bssadded(t, j, nb) ==
            sort_ap(publish_value(publish_value(publish_value(publish_value(
                [t EXCEPT !.bsss[j] = nb],
                nb.ssid, topicfmt("bss/" \o nb.bssid \o "/ssid")),
                freqtostr(nb.freq), topicfmt("bss/" \o nb.bssid \o "/freq")),
                itoa(nb.level), topicfmt("bss/" \o nb.bssid \o "/level")),
                bssflagsstr(nb), topicfmt("bss/" \o nb.bssid \o "/flags")))
        netflags(t, nb) ==
            IF nb.ssid = NULL THEN nb
            ELSE compute_network_flags(t, nb, find_network_by_ssid(t, nb.ssid))
        bssadd(t, flags) ==
            bssadded(t, Len(t.bsss), netflags(t, compute_flags(Last(t.bsss), flags)))
        \* publish corresponding level
        bsslevel(t, bssid, level) ==
            IF t.curr_mode = 0 /\ strcmp0(t.curr_bssid, OrEmpty(bssid))
            THEN [pubif(t, level # t.curr_level, itoa(level), topicfmt("level"))
                  EXCEPT !.curr_level = level]
            ELSE t
        bssfound(t, j, bssid, ssid, freq, level, flags) ==
            IF j # 0
            THEN bssknown(t, j, compute_flags([t.bsss[j] EXCEPT !.freq = freq,
                                                                !.level = level], flags))
            ELSE IF bssid # NULL THEN bssadd(add_ap(t, bssid, freq, level, ssid), flags)
            ELSE t
        bssinfo(t, bssid, ssid, freq, level, flags) ==
            IF ssid # NULL /\ strncmp0(ssid, "\\x00", 4) THEN t
            ELSE bsslevel(bssfound(t, find_ap_by_bssid(t, bssid), bssid, ssid, freq, level,
                                   flags),
                          bssid, level)
        bss_response(t) ==
            bssinfo(t, lastval(lines, "bssid"), lastval(lines, "ssid"),
                    strtoul(OrEmpty(lastval(lines, "freq"))).val,
                    strtol(OrEmpty(lastval(lines, "level"))), lastval(lines, "flags"))
        \* LIST_NETWORKS: a line whose ssid is in the table already is a
        \* duplicate, every other line adds a record and asks for its
        \* properties
        listitem(t, id, ssid) ==
            IF \E k \in 1..Len(t.networks) : strcmp0(ssid, OrEmpty(t.networks[k].ssid))
            THEN mylog(wpa_send(t, "REMOVE_NETWORK " \o itoa(id), snd), LOG_WARNING, "")
            ELSE wpa_send(wpa_send(add_network(t, id, ssid),
                                   "GET_NETWORK " \o itoa(id) \o " disabled", snd),
                          "GET_NETWORK " \o itoa(id) \o " mode", snd)
        listfields(t, tk) == listitem(t, strtoul(tk.tok).val, strtok(tk.rest, {"\t"}).tok)
        RECURSIVE listlines(_, _)
        listlines(t, ls) ==
            IF ls = <<>> \/ ~Live(t) THEN t
            ELSE IF strncmp0("network id", Head(ls), 10) THEN listlines(t, Tail(ls))
            ELSE listlines(listfields(t, strtok(Head(ls), {"\t"})), Tail(ls))
        \* GET_NETWORK <id> <name>: line is the value
        get_value(t, net, name) ==
            IF net = 0 THEN t
            ELSE IF strcmp0(name, "mode") THEN
                network_changed([t EXCEPT !.networks[net].mode = strtoul(line).val], net, 0)
            ELSE IF strcmp0(name, "disabled") THEN
                network_changed(nets_enabled_changed(
                    [t EXCEPT !.networks[net].flags = disabled(@, strtoul(line).val # 0)]),
                    net, 0)
            ELSE t
        get_id(t, t2) ==
            get_value(t, find_network_by_id(t, IF t2.tok = NULL THEN -1
                                               ELSE strtoul(t2.tok).val),
                      OrEmpty(strtok(t2.rest, {" "}).tok))
        get_network(t, a) == get_id(t, strtok(strtok(a, {" "}).rest, {" "}))
        \* the response to head, the command that pop_strq returned
        response(s2, head) ==
            IF lines = <<"FAIL">> \/ lines = <<"UNKNOWN COMMAND">> THEN
                IF strncmp0("STA-NEXT ", head.a, 9) \/ strcmp0("STA-FIRST", head.a) THEN s2
                ELSE publish_failure(s2, "'" \o strtok(head.a, {" "}).tok \o "': " \o line)
            ELSE IF lines = <<>> THEN s2
            ELSE IF strcmp0(head.a, "ATTACH") THEN
                wpa_send(wpa_send(wpa_send(wpa_send(s2, "LIST_NETWORKS", snd),
                                           "SCAN_RESULTS", snd), "STATUS", snd), "SCAN", snd)
            \* for (j = nnetworks; j > 0; --j) remove_network(networks+j): the
            \* record behind the table is freed, and memmove is given the
            \* length (nnetworks-1-j)*sizeof(*networks) < 0
            ELSE IF strcmp0("LIST_NETWORKS", head.a) /\ s2.networks # <<>>
            THEN exit(s2, 139, "SIGSEGV")
            ELSE IF strcmp0("LIST_NETWORKS", head.a) THEN sort_networks(listlines(s2, lines))
            ELSE IF strcmp0(head.a, "SCAN_RESULTS") THEN scan_results(s2)
            ELSE IF strncmp0("BSS ", head.a, 4) THEN bss_response(s2)
            ELSE IF strcmp0("SIGNAL_POLL", head.a) THEN wpa_signal_poll(s2, lines)
            ELSE IF strcmp0("STATUS", head.a) THEN wpa_status(s2, lines, snd)
            ELSE IF strcmp0("STA-FIRST", head.a) THEN
                wpa_send(set_wifi_stations(s2, 1), "STA-NEXT " \o lines[1], snd)
            ELSE IF strcmp0("STA-NEXT", head.a) THEN
                wpa_send(set_wifi_stations(s2, s2.nstations + 1), "STA-NEXT " \o lines[1],
                         snd)
            ELSE IF strncmp0("GET_NETWORK ", head.a, 12) THEN get_network(s2, head.a)
            ELSE IF strncmp0("SET_NETWORK ", head.a, 12) THEN set_args(s2, head.a)
            ELSE IF strncmp0("ADD_NETWORK", head.a, 11) THEN
                added(s2, oldest(s2, pending(s2)), Cardinality(pending(s2)),
                      strtoul(line).val)
            ELSE IF strncmp0("ENABLE_NETWORK all", head.a, 18) THEN
                nets_enabled_changed(wpa_save_config(flagloop(s2, 1, "enable", -1), snd))
            ELSE IF strncmp0("DISABLE_NETWORK all", head.a, 19) THEN
                nets_enabled_changed(wpa_save_config(flagloop(s2, 1, "disable", -1), snd))
            ELSE IF strncmp0("ENABLE_NETWORK ", head.a, 15) THEN
                enable(s2, find_network_by_id(s2, strtoul(strfrom(head.a, 15)).val), 1)
            ELSE IF strncmp0("DISABLE_NETWORK ", head.a, 16) THEN
                enable(s2, find_network_by_id(s2, strtoul(strfrom(head.a, 16)).val), 0)
            ELSE IF strncmp0("REMOVE_NETWORK ", head.a, 15) THEN wpa_save_config(s2, snd)
            ELSE IF strncmp0("SELECT_NETWORK ", head.a, 15) THEN
                nets_enabled_changed(wpa_save_config(
                    flagloop(s2, 1, "select", strtoul(strfrom(head.a, 15)).val), snd))
            ELSE IF strcmp0("PING", head.a) THEN s2
            ELSE IF strncmp0("SET ", head.a, 4) THEN wpa_save_config(s2, snd)
            ELSE s2
        \* head = pop_strq(); if (!head) "unexpected response"
        popped(s1) ==
            IF s1.head = NoStr THEN mylog(s1, LOG_WARNING, "")
            ELSE response(libt_remove_timeout(s1, "wpa_cmd_timeout"), s1.head)
    IN  IF ~Live(s) THEN s
        ELSE IF strncmp0("<2>", line, 3) \/ strncmp0("<3>", line, 3)
                \/ strncmp0("<4>", line, 3)
        THEN wpa_recvd_event([s EXCEPT !.head = NoStr], strfrom(line, 3), snd)
        ELSE popped(wifi_pop_strq(s))

(* ------------------------------------------------------------------ *)
(* wifitomqtt: main                                                    *)
(* ------------------------------------------------------------------ *)
\* main() up to the for (;;) loop
wifi_main_start(snd) ==
    wpa_send([pc |-> "loop", exitcode |-> -1, sigterm |-> 0, ready |-> 0,
              strq |-> <<>>, head |-> NoStr, timeouts |-> {}, wpa_lost |-> 0,
              have_bss_events |-> 0, curr_mode |-> 0, curr_bssid |-> "",
              curr_level |-> 0, saved_rssi |-> 0, saved_speed |-> 0,
              networks |-> <<>>, netcreateseq |-> 0, last_ap_id |-> -1,
              last_mesh_id |-> -1, bsss |-> <<>>, selectedmode |-> -1,
              real_wifi_state |-> NULL, pub_wifi_state |-> NULL, nstations |-> 0,
              myuuid |-> "", pub |-> <<>>,
              h_nsent |-> 0, h_supp |-> <<>>, h_cause |-> "", h_state_set |-> 0,
              h_nadd |-> 0, h_created |-> <<>>, h_nmsg |-> 0, h_unsaved |-> 0, h_reply |-> <<>>,
              h_last |-> [op |-> "main", re |-> 0]],
             "ATTACH", snd)

\* publish_value("", topicfmt(...)) for each of the leaves
RECURSIVE wifi_clear(_, _)
wifi_clear(s, leaves) ==
    IF leaves = <<>> THEN s
    ELSE wifi_clear(publish_value(s, "", topicfmt(Head(leaves))), Tail(leaves))

\* the four topics of every known BSS
RECURSIVE wifi_clear_bss(_, _)
wifi_clear_bss(s, j) ==
    IF j > Len(s.bsss) THEN s
    ELSE wifi_clear_bss(wifi_clear(s, <<"bss/" \o s.bsss[j].bssid \o "/freq",
                                         "bss/" \o s.bsss[j].bssid \o "/level",
                                         "bss/" \o s.bsss[j].bssid \o "/ssid",
                                         "bss/" \o s.bsss[j].bssid \o "/flags">>), j + 1)

\* main(): return !sigterm
wifi_main_return(s) == exit(s, IF s.sigterm # 0 THEN 0 ELSE 1, s.h_cause)

\* main(): from the label done to the return
wifi_main_done(s, cause) ==
    LET c0 == [s EXCEPT !.h_cause = cause]
        c1 == wifi_clear(wifi_clear_bss(c0, 1),
                         <<"speed", "rssi", "bssid", "freq", "level", "ssid", "lastAP",
                           "lastmesh", "stations", "wifistate">>)
        c2 == send_self_sync(c1)
    IN  IF ~Live(s) THEN s
        ELSE IF c2.ready # 0 THEN wifi_main_return(c2)
        ELSE [c2 EXCEPT !.pc = "selfsync"]

\* mosquitto_sub_topic_tokenise: the levels of the topic
RECURSIVE topic_tokenise(_)
topic_tokenise(topic) ==
    IF \E i \in 1..Len(topic) : CharAt(topic, i) = "/"
    THEN <<strnprefix(topic, toklen(topic, {"/"}))>>
         \o topic_tokenise(strfrom(topic, toklen(topic, {"/"}) + 1))
    ELSE <<topic>>

\* my_mqtt_msg; payload is NULL for an empty message. The program is built
\* without NOPLAINPSK and run without the option that sets noapbgscan
wifi_my_mqtt_msg(s, topic, payload, snd) ==
    LET toks == topic_tokenise(topic)
        ntoks == Len(toks)
        all(t, cmd) == [wpa_send(t, cmd, snd) EXCEPT !.selectedmode = -1]
        \* net/<iface>/ssid/set
        select(t, net) ==
            IF net # 0 /\ t.networks[net].id >= 0
            THEN wpa_send(t, "SELECT_NETWORK " \o itoa(t.networks[net].id), snd)
            ELSE IF net # 0 THEN [t EXCEPT !.networks[net].netflags = @ \cup {NF_SEL}]
            ELSE t
        set(t) ==
            IF payload = NULL \/ strcmp0(payload, "none") THEN all(t, "DISABLE_NETWORK all")
            ELSE IF strcmp0(payload, "all") THEN all(t, "ENABLE_NETWORK all")
            ELSE select(t, find_network_by_ssid(t, payload))
        \* net/<iface>/ssid/enable and net/<iface>/ssid/disable
        enable(t, net, cmd, on) ==
            [(IF net # 0 /\ t.networks[net].id >= 0
              THEN wpa_send(t, cmd \o itoa(t.networks[net].id), snd)
              \* queue flags already
              ELSE IF net # 0
              THEN [t EXCEPT !.networks[net].flags = IF on THEN @ \ {BF_DISABLED}
                                                     ELSE @ \cup {BF_DISABLED}]
              ELSE t)
             EXCEPT !.selectedmode = -1]
        \* net/<iface>/ssid/remove
        remove(t, net) ==
            IF net # 0 /\ t.networks[net].id >= 0
            THEN nets_enabled_changed(remove_network(network_changed(
                     wpa_send(t, "REMOVE_NETWORK " \o itoa(t.networks[net].id), snd),
                     net, 1), net))
            ELSE IF net # 0 THEN [t EXCEPT !.networks[net].netflags = @ \cup {NF_REMOVE}]
            ELSE t
        \* net/<iface>/ssid/psk and net/<iface>/ssid/config/<key>: ssid is the
        \* first line of the payload, value the second; strtok(NULL, ...) ends
        \* the process
        config2(t, ssid, key, value) ==
            add_network_config(t, find_network_by_ssid(t, ssid), key, value, snd)
        config1(t, w, key) ==
            config2(find_or_create_ssid(t, w.tok, snd), w.tok, key,
                    strtok(w.rest, {"\n", "\r"}).tok)
        config(t, key) ==
            IF payload = NULL THEN exit(t, 139, "SIGSEGV")
            ELSE config1(t, strtok(payload, {"\n", "\r", "="}), key)
        \* net/<iface>/ssid/ap and net/<iface>/ssid/mesh
        defaults(t, net, mode) ==
            IF ~Live(t) THEN t
            ELSE IF t.networks[net].id >= 0 THEN [t EXCEPT !.networks[net].mode = mode]
            ELSE IF mode = 2
            \* leave new AP network disabled
            THEN [t EXCEPT !.networks[net].mode = mode,
                           !.networks[net].flags = @ \cup {BF_DISABLED}]
            \* set some defaults; leave new mesh network disabled
            ELSE [add_network_config(add_network_config(
                      [t EXCEPT !.networks[net].mode = mode], net, "key_mgmt", "NONE", snd),
                      net, "frequency", "2437", snd)
                  EXCEPT !.networks[net].flags = @ \cup {BF_DISABLED}]
        moded(t, net, mode) ==
            defaults(add_network_config(t, net, "mode", itoa(mode), snd), net, mode)
        apmesh(t, mode) == moded(t, find_network_by_ssid(t, payload), mode)
        ssid(t) ==
            IF strcmp0(toks[4], "set") THEN set(t)
            ELSE IF strcmp0(toks[4], "enable") THEN
                enable(t, find_network_by_ssid(t, payload), "ENABLE_NETWORK ", TRUE)
            ELSE IF strcmp0(toks[4], "disable") THEN
                enable(t, find_network_by_ssid(t, payload), "DISABLE_NETWORK ", FALSE)
            ELSE IF strcmp0(toks[4], "remove") THEN
                remove(t, find_network_by_ssid(t, payload))
            ELSE IF strcmp0(toks[4], "psk") THEN config(t, "psk")
            ELSE IF strcmp0(toks[4], "config") /\ ntoks = 5 THEN config(t, toks[5])
            ELSE IF strcmp0(toks[4], "ap") THEN apmesh(find_or_create_ssid(t, payload, snd), 2)
            ELSE IF strcmp0(toks[4], "mesh") THEN
                apmesh(find_or_create_ssid(t, payload, snd), 5)
            ELSE IF strcmp0(toks[4], "create") THEN find_or_create_ssid(t, payload, snd)
            ELSE t
        \* net/<iface>/wifistate/set: disable all networks, and enable those of
        \* the new mode
        RECURSIVE modeloop(_, _)
        modeloop(t, j) ==
            IF j > Len(t.networks) THEN t
            ELSE IF t.networks[j].id < 0 THEN
                modeloop([t EXCEPT !.networks[j].flags =
                                       IF t.networks[j].mode = t.selectedmode
                                       THEN @ \ {BF_DISABLED} ELSE @ \cup {BF_DISABLED}],
                         j + 1)
            ELSE IF t.networks[j].mode = t.selectedmode
                    /\ BF_DISABLED \in t.networks[j].flags THEN
                modeloop(wpa_send(t, "ENABLE_NETWORK " \o itoa(t.networks[j].id), snd), j + 1)
            ELSE IF t.networks[j].mode # t.selectedmode
                    /\ BF_DISABLED \notin t.networks[j].flags THEN
                modeloop(wpa_send(t, "DISABLE_NETWORK " \o itoa(t.networks[j].id), snd),
                         j + 1)
            ELSE modeloop(t, j + 1)
        \* strcasecmp(modes[j], payload)
        modeof(str) == IF str \in {"station", "STATION", "Station"} THEN 0
                       ELSE IF str \in {"AP", "ap", "Ap", "aP"} THEN 2
                       ELSE IF str \in {"mesh", "MESH", "Mesh"} THEN 5 ELSE -1
        modestr(j) == IF j = 0 THEN "station" ELSE IF j = 2 THEN "AP" ELSE "mesh"
        \* clear current SSID, before ack of new wifistate
        wifimode(t) ==
            IF t.selectedmode < 0 THEN t
            ELSE set_wifi_state(publish_value(modeloop(t, 1), "", topicfmt("ssid")),
                                modestr(t.selectedmode))
        wifistate(t) ==
            IF payload = NULL THEN exit(t, 139, "SIGSEGV")
            ELSE IF strcmp0(payload, "off") THEN all(t, "DISABLE_NETWORK all")
            ELSE IF strcmp0(payload, "any") THEN all(t, "ENABLE_NETWORK all")
            ELSE wifimode([t EXCEPT !.selectedmode = modeof(payload)])
        tokens(t) ==
            IF ntoks >= 4 /\ strcmp0(toks[1], "net") /\ strcmp0(toks[2], iface)
               /\ strcmp0(toks[3], "ssid") THEN ssid(t)
            ELSE IF ntoks = 5 /\ strcmp0(toks[1], "net") /\ strcmp0(toks[2], iface)
                    /\ strcmp0(toks[3], "wifi") /\ strcmp0(toks[4], "config") THEN
                wpa_send(t, "SET " \o toks[5] \o " " \o payload, snd)
            ELSE IF ntoks = 4 /\ strcmp0(toks[1], "net") /\ strcmp0(toks[2], iface)
                    /\ strcmp0(toks[3], "wifistate") /\ strcmp0(toks[4], "set") THEN
                wifistate(t)
            ELSE t
    IN  IF ~Live(s) THEN s
        ELSE tokens(IF is_self_sync(s, topic, payload) THEN [s EXCEPT !.ready = 1] ELSE s)

(* ------------------------------------------------------------------ *)
(* wifitomqtt: the event loop                                          *)
(* ------------------------------------------------------------------ *)
\* results of send(2) on the control socket
SendResults == {"ok", "ENOTCONN"}

\* what wpa_supplicant answers to a command
Replies(a) ==
    IF a = "ATTACH" THEN {<<"OK">>, <<"FAIL">>}
    ELSE IF a = "LIST_NETWORKS" THEN {<<"network id / ssid / bssid / flags">>}
    ELSE IF a = "SCAN_RESULTS" THEN {<<"bssid / frequency / signal level / flags / ssid">>}
    ELSE IF a = "STATUS" THEN {<<"wpa_state=DISCONNECTED">>,
                               <<"ssid=home", "mode=station", "wpa_state=COMPLETED">>}
    ELSE IF a = "SCAN" THEN {<<"OK">>, <<"FAIL-BUSY">>}
    ELSE IF a = "SIGNAL_POLL" THEN {<<"RSSI=-60", "LINKSPEED=54">>, <<"FAIL">>}
    ELSE IF a = "PING" THEN {<<"PONG">>}
    ELSE {<<"OK">>}

\* the events wpa_supplicant sends on its own
Events == {"<3>CTRL-EVENT-SCAN-RESULTS",
           "<3>CTRL-EVENT-CONNECTED - Connection to 02:00:00:00:01:00 completed",
           "<3>CTRL-EVENT-DISCONNECTED bssid=02:00:00:00:01:00 reason=3"}

\* the globals before a handler runs
WifiS == [wifi EXCEPT !.pub = <<>>, !.head = NoStr, !.h_state_set = 0]

WifiInit == \E snd \in SendResults : wifi = wifi_main_start(snd)

\* a handler runs to completion; at most MaxWpaCmds commands are sent in a run
WifiStep(r, op, re) ==
    /\ r.h_nsent <= MaxWpaCmds
    /\ wifi' = [r EXCEPT !.h_last = [op |-> op, re |-> re]]
    /\ UNCHANGED <<at_vars, ins, rx, h_seq, h_npub>>

\* libt_flush and the test of wpa_lost that follows it
wifi_after_flush(s) == IF s.wpa_lost # 0 THEN wifi_main_done(s, "wpa lost") ELSE s

\* recv(wpasock) delivered the answer to the oldest command the supplicant holds
WpaRecvdReply ==
    /\ wifi.pc = "loop"
    /\ wifi.h_supp # <<>>
    /\ \E lines \in Replies(Head(wifi.h_supp).a), snd \in SendResults :
        WifiStep(wpa_recvd_pkt([WifiS EXCEPT !.h_supp = Tail(@)], lines, snd),
                 "reply", Head(wifi.h_supp).id)

\* recv(wpasock) delivered an event
WpaRecvdEvent ==
    /\ wifi.pc = "loop"
    /\ \E ev \in Events, snd \in SendResults :
        WifiStep(wpa_recvd_pkt(WifiS, <<ev>>, snd), "event", 0)

\* recv(wpasock) delivered a datagram nobody asked for
WpaRecvdStray ==
    /\ wifi.pc = "loop"
    /\ wifi.h_supp = <<>>
    /\ \E snd \in SendResults : WifiStep(wpa_recvd_pkt(WifiS, <<"OK">>, snd), "stray", 0)

\* recv(wpasock) failed
WpaRecvError ==
    /\ wifi.pc = "loop"
    /\ WifiStep(wifi_main_done(mylog(WifiS, LOG_WARNING, ""), "recv"), "recv error", 0)

\* libt_flush runs wpa_cmd_timeout
WpaCmdTimeout ==
    /\ wifi.pc = "loop"
    /\ "wpa_cmd_timeout" \in wifi.timeouts
    /\ WifiStep(wifi_after_flush(wpa_cmd_timeout(
                    [WifiS EXCEPT !.timeouts = @ \ {"wpa_cmd_timeout"}])),
                "wpa_cmd_timeout", 0)

\* libt_flush runs wpa_keepalive
WpaKeepalive ==
    /\ wifi.pc = "loop"
    /\ "wpa_keepalive" \in wifi.timeouts
    /\ \E snd \in SendResults :
        WifiStep(wifi_after_flush(wpa_keepalive(
                     [WifiS EXCEPT !.timeouts = @ \ {"wpa_keepalive"}], snd)),
                 "wpa_keepalive", 0)

\* SIGINT or SIGTERM read from the signalfd
WifiSignal ==
    /\ wifi.pc = "loop"
    /\ WifiStep(wifi_main_done(WifiS, "signal"), "signal", 0)

\* my_mqtt_msg for tmp/selfsync, and the while (!ready) test after it
WifiMqttSelfSync ==
    /\ wifi.pc = "selfsync"
    /\ \E payload \in {SelfSyncToken, "0-0-0"} :
        LET s1 == wifi_my_mqtt_msg(WifiS, SelfSyncTopic, payload, "ok")
        IN  WifiStep(IF s1.ready # 0 THEN wifi_main_return(s1) ELSE s1, "selfsync", 0)

\* the broker connection is lost
WifiBrokerLost ==
    /\ wifi.pc \in {"loop", "selfsync"}
    /\ WifiStep(IF wifi.pc = "loop" THEN exit(WifiS, 1, "broker")
                ELSE mylog(WifiS, LOG_ERR, "broker"), "broker", 0)

\* the messages the broker delivers: [topic, payload]
Msgs == {[topic |-> topicfmt("ssid/psk"), payload |-> "home\n\"hunter2\""],
         [topic |-> topicfmt("ssid/config/priority"), payload |-> "home\n5"],
         [topic |-> topicfmt("ssid/ap"), payload |-> "hotspot"],
         [topic |-> topicfmt("ssid/remove"), payload |-> "home"],
         [topic |-> topicfmt("ssid/set"), payload |-> "home"],
         [topic |-> topicfmt("ssid/disable"), payload |-> "home"],
         [topic |-> topicfmt("ssid/mesh"), payload |-> "mesh0"],
         [topic |-> topicfmt("wifistate/set"), payload |-> "station"],
         [topic |-> topicfmt("wifistate/set"), payload |-> "AP"]}

\* the messages of a run that changes the global configuration as well
SaveMsgs == {[topic |-> topicfmt("wifi/config/country"), payload |-> "NL"],
             [topic |-> topicfmt("ssid/psk"), payload |-> "home\n\"hunter2\""]}

\* the BSSs in the air, as the supplicant reports them: c hides its ssid
Air == [a |-> [bssid |-> "02:00:00:00:01:00", freq |-> "2437", level |-> "-60",
               flags |-> "[WPA2-PSK-CCMP][ESS]", ssid |-> "home"],
        b |-> [bssid |-> "02:00:00:00:02:00", freq |-> "5180", level |-> "-70",
               flags |-> "[ESS]", ssid |-> "cafe"],
        c |-> [bssid |-> "02:00:00:00:03:00", freq |-> "2412", level |-> "-80",
               flags |-> "[WPA2-PSK-CCMP][ESS]", ssid |-> "\\x00\\x00\\x00\\x00"]]

\* a line of SCAN_RESULTS and the lines of BSS <bssid>
ScanLine(b) == b.bssid \o "\t" \o b.freq \o "\t" \o b.level \o "\t" \o b.flags \o "\t"
               \o b.ssid
BssLines(b) == <<"id=0", "bssid=" \o b.bssid, "freq=" \o b.freq, "level=" \o b.level,
                "flags=" \o b.flags, "ssid=" \o b.ssid>>

\* the lists of BSSs that a SCAN_RESULTS response of the scanning run names
Scans == {<<>>, <<"a", "b">>, <<"b", "c">>}

\* recv(wpasock) delivered the answer to the oldest command the supplicant
\* holds. The supplicant is idle and sees no BSS; it answers ADD_NETWORK with
\* the next free id, and may refuse the commands that start with one of
\* fail. At most MaxNetCmds commands are sent in a run
WpaNetReply(fail, scans) ==
    LET a == Head(wifi.h_supp).a
        lines == IF a = "LIST_NETWORKS" THEN {<<"network id / ssid / bssid / flags">>}
                 ELSE IF a = "SCAN_RESULTS"
                 THEN {<<"bssid / frequency / signal level / flags / ssid">>
                       \o [j \in 1..Len(scan) |-> ScanLine(Air[scan[j]])] : scan \in scans}
                 ELSE IF \E x \in DOMAIN Air : a = "BSS " \o Air[x].bssid
                 THEN {BssLines(Air[x]) : x \in {y \in DOMAIN Air : a = "BSS " \o Air[y].bssid}}
                 ELSE IF a = "STATUS" THEN {<<"wpa_state=DISCONNECTED">>}
                 ELSE IF a = "ADD_NETWORK"
                 THEN {<<itoa(wifi.h_nadd)>>}
                      \cup (IF "ADD_NETWORK" \in fail THEN {<<"FAIL">>} ELSE {})
                 ELSE IF \E c \in fail : strncmp0(c, a, Len(c)) THEN {<<"OK">>, <<"FAIL">>}
                 ELSE {<<"OK">>}
        answered == [WifiS EXCEPT !.h_supp = Tail(@),
                                  !.h_nadd = IF a = "ADD_NETWORK" THEN @ + 1 ELSE @]
        \* history: a change was acknowledged and SAVE_CONFIG not sent since
        unsaved(r, l) ==
            IF \E i \in 1..Len(r.strq) :
                    r.strq[i].a = "SAVE_CONFIG" /\ r.strq[i].id > wifi.h_nsent THEN 0
            ELSE IF l = <<"OK">>
                    /\ \E c \in {"SET_NETWORK ", "ENABLE_NETWORK ", "DISABLE_NETWORK ",
                                  "SELECT_NETWORK ", "REMOVE_NETWORK ", "SET "} :
                          strncmp0(c, a, Len(c)) THEN 1
            ELSE r.h_unsaved
    IN  /\ wifi.pc = "loop"
        /\ wifi.h_supp # <<>>
        /\ \E l \in lines : \E r \in {wpa_recvd_pkt(answered, l, "ok")} :
            /\ r.h_nsent <= MaxNetCmds
            /\ wifi' = [r EXCEPT !.h_last = [op |-> "reply", re |-> Head(wifi.h_supp).id],
                                 !.h_unsaved = unsaved(r, l), !.h_reply = l]
        /\ UNCHANGED <<at_vars, ins, rx, h_seq, h_npub>>

\* the networks wpa_supplicant may have configured: none, or three of which
\* the last repeats the ssid of the first
NetLists == {<<>>, <<[id |-> 0, ssid |-> "home"], [id |-> 1, ssid |-> "cafe"],
                    [id |-> 2, ssid |-> "home"]>>}
\* the response to LIST_NETWORKS
NetLines(l) == <<"network id / ssid / bssid / flags">>
               \o [j \in 1..Len(l) |-> itoa(l[j].id) \o "\t" \o l[j].ssid \o "\tany\t"]

\* recv(wpasock) delivered the answer to the oldest command the supplicant
\* holds; the supplicant has one of the lists of NetLists configured, of
\* which network 1 may be disabled
WpaListReply ==
    LET a == Head(wifi.h_supp).a
        lines == IF a = "LIST_NETWORKS" THEN {NetLines(l) : l \in NetLists}
                 ELSE IF a = "SCAN_RESULTS"
                 THEN {<<"bssid / frequency / signal level / flags / ssid">>}
                 ELSE IF a = "STATUS" THEN {<<"wpa_state=DISCONNECTED">>}
                 ELSE IF a = "ADD_NETWORK" THEN {<<"3">>}
                 ELSE IF a = "GET_NETWORK 1 disabled" THEN {<<"0">>, <<"1">>}
                 ELSE IF strncmp0("GET_NETWORK ", a, 12) THEN {<<"0">>}
                 ELSE {<<"OK">>}
    IN  /\ wifi.pc = "loop"
        /\ wifi.h_supp # <<>>
        /\ \E l \in lines :
            \E r \in {wpa_recvd_pkt([WifiS EXCEPT !.h_supp = Tail(@)], l, "ok")} :
            /\ r.h_nsent <= MaxNetCmds
            /\ wifi' = [r EXCEPT !.h_last = [op |-> "reply", re |-> Head(wifi.h_supp).id],
                                 !.h_reply = l]
        /\ UNCHANGED <<at_vars, ins, rx, h_seq, h_npub>>

\* recv(wpasock) delivered one of the events about the BSSs in the air
WpaScanEvent ==
    /\ wifi.pc = "loop"
    /\ \E ev \in {"<3>CTRL-EVENT-SCAN-RESULTS"}
                 \cup {"<3>CTRL-EVENT-BSS-ADDED 1 " \o Air[x].bssid : x \in {"a"}}
                 \cup {"<3>CTRL-EVENT-BSS-REMOVED 1 " \o Air[x].bssid : x \in {"a", "b"}} :
        \E r \in {wpa_recvd_pkt(WifiS, <<ev>>, "ok")} :
            /\ r.h_nsent <= MaxNetCmds
            /\ wifi' = [r EXCEPT !.h_last = [op |-> "event", re |-> 0], !.h_reply = <<ev>>]
    /\ UNCHANGED <<at_vars, ins, rx, h_seq, h_npub>>

\* mosquitto_loop_read delivered one of msgs to my_mqtt_msg; at most MaxMsgs
\* messages are delivered in a run
WifiMqttMsg(msgs) ==
    /\ wifi.pc = "loop"
    /\ wifi.h_nmsg < MaxMsgs
    /\ \E m \in msgs :
        \E r \in {wifi_my_mqtt_msg([WifiS EXCEPT !.h_nmsg = @ + 1], m.topic, m.payload,
                                   "ok")} :
            /\ r.h_nsent <= MaxNetCmds
            /\ wifi' = [r EXCEPT !.h_last = [op |-> m.topic, re |-> 0]]
    /\ UNCHANGED <<at_vars, ins, rx, h_seq, h_npub>>

WifiNext ==
    \/ WpaRecvdReply
    \/ WpaRecvdEvent
    \/ WpaRecvdStray
    \/ WpaRecvError
    \/ WpaCmdTimeout
    \/ WpaKeepalive
    \/ WifiSignal
    \/ WifiMqttSelfSync
    \/ WifiBrokerLost

(* ------------------------------------------------------------------ *)
(* mypublish_change applied to arbitrary sequences of values           *)
(* ------------------------------------------------------------------ *)
\* the caches exercised, with the topic and retain flag of their callers
Caches == {"saved_fail", "saved_brand"}
TopicOf(c) == IF c = "saved_fail" THEN "fail" ELSE "brand"
RetainOf(c) == IF c = "saved_fail" THEN 0 ELSE 1
Values == {NULL, "", "a", "SIMCOM"}

ChangeInit == h_seq = <<>> /\ h_npub = [c \in Caches |-> 0]

Change ==
    /\ Len(h_seq) < MaxSeq
    /\ \E c \in Caches, v \in Values :
        LET r == mypublish_change(AtS, TopicOf(c), v, RetainOf(c), c) IN
        /\ AtCommit(r, Call("mypublish_change", v))
        /\ h_seq' = Append(h_seq, <<c, v>>)
        /\ h_npub' = [h_npub EXCEPT ![c] = @ + Len(r.pub)]
        /\ UNCHANGED <<wifi, ins, rx>>

(* ------------------------------------------------------------------ *)
(* Specifications                                                      *)
(* ------------------------------------------------------------------ *)
\* a program that is started and left alone
EnvIdle == [cmdlines |-> {CmdlineDefault}, lines |-> {}, wr |-> {"ok"},
            blocks |-> 0, rawsend |-> {}]
(* ------------------------------------------------------------------ *)
(* atinsert                                                            *)
(* ------------------------------------------------------------------ *)
\* the globals of atinsert: cmds is what is left of argv from *cmds on, out
\* the lines printed on stdout, sent the commands published on raw/send

\* my_mqtt_msg(mosq, userdata, mmsg); payload is mmsg->payload
atinsert_my_mqtt_msg(s, payload) ==
    LET tabs == {i \in 1..Len(payload) : CharAt(payload, i) = "\t"}
        \* sep = strchr(msg, '\t'); tok = strrchr(msg, '\t')
        sep == CHOOSE i \in tabs : \A k \in tabs : i <= k
        tok == CHOOSE i \in tabs : \A k \in tabs : k <= i
        \* mosquitto_disconnect: mosquitto_loop_forever returns, main returns failed
        terminate(t) == [t EXCEPT !.pc = "exited", !.exitcode = t.failed, !.cause = "return"]
        \* ++cmds is done
        next(t) ==
            IF t.cmds = <<>> THEN terminate([t EXCEPT !.failed = 0])
            ELSE IF t.failexit > 1 THEN [t EXCEPT !.sent = Append(@, Head(t.cmds))]
            ELSE t
        result(t) ==
            IF t.failexit # 0 /\ ~strcmp0("OK", strfrom(payload, tok))
            THEN IF t.failexit > 1 THEN terminate([t EXCEPT !.failed = 1])
                 ELSE next([t EXCEPT !.failed = 1, !.cmds = Tail(@)])
            ELSE next([t EXCEPT !.cmds = Tail(@)])
    IN  IF s.pc # "loop" THEN s
        ELSE IF (s.failexit > 1 /\ s.failed # 0) \/ payload = NULL \/ s.cmds = <<>> THEN s
        ELSE IF tabs = {} THEN s
        ELSE IF SubSeq(payload, 1, sep - 1) # Head(s.cmds) THEN s
        ELSE result([s EXCEPT !.out = Append(@, payload)])

\* main() up to mosquitto_loop_forever: cmdline holds the ATCMD arguments, x
\* the number of -x options
atinsert_main(cmdline, x) ==
    LET s0 == [pc |-> "loop", exitcode |-> 0, cause |-> "", failexit |-> x, failed |-> 0,
               cmds |-> cmdline, argv |-> cmdline, out |-> <<>>, sent |-> <<>>]
    IN  IF cmdline = <<>> THEN [s0 EXCEPT !.pc = "exited", !.exitcode = 1, !.cause = "usage"]
        ELSE [s0 EXCEPT !.sent = IF x > 1 THEN <<cmdline[1]>> ELSE cmdline]

\* the command lines of atinsert and what attomqtt publishes on raw/at
InsCmdlines == {<<"at+csq">>, <<"at+csq", "at+cops?">>, <<"at+csq", "at+cops?", "at+csq">>}
InsPayloads == {"at+csq\tOK", "at+csq\t+CSQ: 20,99\tOK", "at+csq\tERROR",
                "at+cops?\t+COPS: 0\tOK", "at+cops?\t+CME ERROR: 10", "+CREG: 1", NULL}

InsInit == \E cmdline \in InsCmdlines, x \in 0..2 : ins = atinsert_main(cmdline, x)
InsIdle == ins = atinsert_main(<<>>, 0)

\* mosquitto_loop_forever delivered a message of raw/at
InsMqttMsg ==
    /\ ins.pc = "loop"
    /\ \E payload \in InsPayloads : ins' = atinsert_my_mqtt_msg(ins, payload)
    /\ UNCHANGED <<at_vars, wifi, rx, h_seq, h_npub>>

\* SIGALRM, armed by alarm(5), ends the process
InsAlarm ==
    /\ ins.pc = "loop"
    /\ ins' = [ins EXCEPT !.pc = "exited", !.exitcode = 142, !.cause = "SIGALRM"]
    /\ UNCHANGED <<at_vars, wifi, rx, h_seq, h_npub>>

(* ------------------------------------------------------------------ *)
(* attomqtt: at_recvd, the receive buffer                              *)
(* ------------------------------------------------------------------ *)
\* the globals are buf (bytes 0 .. BufSize-1), consumed, fill and argv: the
\* pointers argv[1 .. argc-1] as offsets into buf. h_orig is the text each
\* collected line had when it was collected, out the response group handed
\* on last
NUL == ""

\* the string at buf+p; what a pointer in front of buf reads is up to the build
RECURSIVE cstr(_, _, _)
cstr(buf, p, junk) ==
    IF p < 0 THEN junk
    ELSE IF p >= BufSize THEN ""
    ELSE IF buf[p] = NUL THEN ""
    ELSE buf[p] \o cstr(buf, p + 1, junk)

\* strchr(buf+p, c): the offset of the first c in the string at buf+p, -1 for NULL
RECURSIVE strchr(_, _, _)
strchr(buf, p, c) ==
    IF p >= BufSize \/ buf[p] = NUL THEN -1
    ELSE IF buf[p] = c THEN p
    ELSE strchr(buf, p + 1, c)

\* at_recvd(line) as far as the buffer goes; a command is pending throughout
\* (strq != NULL) and the lines carry no \r. The buffer of the model holds
\* fewer than NARGV-1 lines, so no collected line is dropped
at_recvd_buf(s, line, junk) ==
    LET len == Len(line)
        \* memmove(buf, buf+consumed, fill+1-consumed); argv[j] -= consumed
        compact(t) ==
            IF t.fill + len + 1 >= BufSize /\ t.consumed > 0
            THEN [t EXCEPT !.buf = [i \in 0..(BufSize - 1) |->
                                       IF i <= t.fill - t.consumed THEN t.buf[i + t.consumed]
                                       ELSE t.buf[i]],
                           !.argv = [j \in 1..Len(@) |-> @[j] - t.consumed],
                           !.fill = @ - t.consumed, !.consumed = 0]
            ELSE t
        \* strcpy(buf+fill, line); fill += len
        strcpy(t) ==
            [t EXCEPT !.buf = [i \in 0..(BufSize - 1) |->
                                  IF i >= t.fill /\ i < t.fill + len
                                  THEN CharAt(line, i - t.fill + 1)
                                  ELSE IF i = t.fill + len THEN NUL ELSE t.buf[i]],
                      !.fill = @ + len]
        \* the response group is complete: argv[1 .. argc-1] are read
        closed(t) ==
            [t EXCEPT !.out = [j \in 1..Len(t.argv) |-> cstr(t.buf, t.argv[j], junk)],
                      !.argv = <<>>, !.h_orig = <<>>]
        collect(t, str, text) ==
            IF text = "" \/ CharAt(text, 1) \in {"+", "*"} THEN t
            ELSE IF IsTerminator(text)
            THEN closed([t EXCEPT !.argv = Append(@, str), !.h_orig = Append(@, text)])
            ELSE [t EXCEPT !.argv = Append(@, str), !.h_orig = Append(@, text)]
        \* one line of the for loop: *sep++ = 0; consumed = sep - buf
        cut(t, str, nl) ==
            collect([t EXCEPT !.buf[nl] = NUL, !.consumed = nl + 1], str,
                    cstr([t.buf EXCEPT ![nl] = NUL], str, junk))
        RECURSIVE lines(_, _)
        lines(t, sep) ==
            IF sep >= BufSize \/ t.buf[sep] = NUL THEN t
            ELSE IF strchr(t.buf, sep, "\n") < 0 THEN t
            ELSE lines(cut(t, sep, strchr(t.buf, sep, "\n")), strchr(t.buf, sep, "\n") + 1)
        reset(t) == IF t.consumed >= t.fill /\ t.argv = <<>>
                    THEN [t EXCEPT !.consumed = 0, !.fill = 0] ELSE t
        stored(t) == IF t.fill + len + 1 >= BufSize
                     THEN [t EXCEPT !.pc = "exited", !.cause = "buffer full"]
                     ELSE reset(lines(strcpy(t), t.consumed))
    IN  stored(compact(s))

RxIdle == rx = [pc |-> "loop", cause |-> "", buf |-> [i \in 0..(BufSize - 1) |-> NUL],
                consumed |-> 0, fill |-> 0, argv |-> <<>>, h_orig |-> <<>>, out |-> <<>>]

\* read(atsock) delivered one line: a line of a response, an unsolicited line
\* or a terminator. The terminator arrives before the lines of the group lie
\* more than one buffer behind
AtRead ==
    /\ rx.pc = "loop"
    /\ \E line \in {"d1", "d2", "+u", "OK"}, junk \in {"", "?"} :
        \E r \in {at_recvd_buf(rx, line \o "\n", junk)} :
            /\ \A j \in 1..Len(r.argv) : r.argv[j] + BufSize >= 0
            /\ rx' = r
    /\ UNCHANGED <<at_vars, wifi, ins, h_seq, h_npub>>

AtIdle == AtInit(EnvIdle)
WifiIdle == wifi = wifi_main_start("ok")

\* the initial states: one program starts in environment E, the others sit idle
InitAt(E) == AtInit(E) /\ WifiIdle /\ InsIdle /\ RxIdle /\ ChangeInit
InitChange == AtIdle /\ WifiIdle /\ InsIdle /\ RxIdle /\ ChangeInit
InitWifi == AtIdle /\ WifiInit /\ InsIdle /\ RxIdle /\ ChangeInit
InitIns == AtIdle /\ WifiIdle /\ InsInit /\ RxIdle /\ ChangeInit
InitRx == AtIdle /\ WifiIdle /\ InsIdle /\ RxIdle /\ ChangeInit

\* attomqtt: the command queue under timeouts, errors and a blocking TTY
EnvQueue == [cmdlines |-> {CmdlineDefault, CmdlineNoCeer},
             lines |-> {"OK", "ERROR"},
             wr |-> {"ok", "EAGAIN"}, blocks |-> MaxBlocks,
             rawsend |-> {"at+csq"}]
AtQueueNext ==
    \/ AtRecvdLine(EnvQueue)
    \/ AtTimeout(EnvQueue)
    \/ AtNextCmd(EnvQueue)
    \/ AtMqttRawSend(EnvQueue)
SpecAt == InitAt(EnvQueue) /\ [][AtQueueNext]_vars

\* attomqtt: responses longer than argv holds
EnvListing == [cmdlines |-> {CmdlineNoCeer},
               lines |-> {"OK", "ERROR"},
               wr |-> {"ok"}, blocks |-> 0, rawsend |-> {}]
SpecAtListing == InitAt(EnvListing) /\ [][AtRecvdListing \/ AtRecvdLine(EnvListing)]_vars

\* attomqtt: a TTY that blocks or fails
EnvTty == [cmdlines |-> {CmdlineDefault},
           lines |-> {"OK"},
           wr |-> {"ok", "EAGAIN", "EIO", "short"}, blocks |-> MAXSUCCESSIVEBLOCKS + 1,
           rawsend |-> {"at+csq"}]
AtTtyNext ==
    \/ AtRecvdLine(EnvTty)
    \/ AtTimeout(EnvTty)
    \/ AtNextCmd(EnvTty)
    \/ AtMqttRawSend(EnvTty)
SpecAtTty == InitAt(EnvTty) /\ [][AtTtyNext]_vars

\* attomqtt: response lines and what is published for them
EnvRaw == [cmdlines |-> {CmdlineDefault, CmdlineCsq},
           lines |-> {"OK", "ERROR", "+CSQ: 12,3", "SIMCOM"},
           wr |-> {"ok"}, blocks |-> 0,
           rawsend |-> {"AT+CSQ"}]
AtRawNext ==
    \/ AtRecvdLine(EnvRaw)
    \/ AtCsq(EnvRaw)
    \/ AtMqttRawSend(EnvRaw)
SpecAtRaw == InitAt(EnvRaw) /\ [][AtRawNext]_vars

\* attomqtt: the ways out of the main loop
EnvExit == [cmdlines |-> {CmdlineDefault},
            lines |-> {"OK", "+CSQ: 12,3"},
            wr |-> {"ok", "EIO"}, blocks |-> 0,
            rawsend |-> {"at+csq"}]
AtExitNext ==
    \/ AtRecvdLine(EnvExit)
    \/ AtTimeout(EnvExit)
    \/ AtMqttRawSend(EnvExit)
    \/ AtEof(EnvExit)
    \/ AtSignal
    \/ AtMqttSelfSync
    \/ AtBrokerLost
SpecAtExit == InitAt(EnvExit) /\ [][AtExitNext]_vars

\* attomqtt: a SIM card that is read, lost and read again, then a shutdown
EnvSim == [cmdlines |-> {CmdlineDefault},
           lines |-> {"OK", "204081234", "+CSPN: \"KPN\",1",
                      "+COPN: \"20408\",\"KPN NL\"", "+SIMCARD: NOT AVAILABLE"},
           wr |-> {"ok"}, blocks |-> 0,
           rawsend |-> {"at+cimi"}]
SpecAtSim ==
    InitAt(EnvSim)
    /\ [][AtRecvdLine(EnvSim) \/ AtMqttRawSend(EnvSim) \/ AtSignal \/ AtMqttSelfSync]_vars

\* attomqtt: up to MaxSeq information lines and answers to at+cimi, after a
\* start with or without an explicit simcom / detachedscan option
\* (-o no-simcom, -o detachedscan)
EnvInfo == [cmdlines |-> {CmdlineDefault, [opts |-> {O_CEER}, ch |-> {O_SIMCOM}],
                          [opts |-> {O_CEER, O_DETACHEDSCAN}, ch |-> {O_DETACHEDSCAN}]},
            lines |-> {"+CGMI: SIMCOM_Ltd", "+CGMI: Quectel", "+CGMM: SIM7500E",
                       "+CGREG: 1,1A2B,01C3,7", "+CREG: 1,0D05,0A11,2",
                       "+COPN: \"204\",\"NL\"", "+COPN: \"20404\",\"Vodafone NL\""},
            wr |-> {"ok"}, blocks |-> 0,
            rawsend |-> {"204043312345678"}]
\* at_recvd for one information line
AtInfo ==
    /\ at_pc = "loop"
    /\ Len(h_seq) < MaxSeq
    /\ \E str \in EnvInfo.lines :
        /\ AtCommit(at_recvd_line(AtS, str, "ok"), Call("at_recvd", str))
        /\ h_seq' = Append(h_seq, str)
        /\ UNCHANGED <<wifi, ins, rx, h_npub>>
\* at_recvd_response for a completed at+cimi exchange
AtCimi ==
    /\ at_pc = "loop"
    /\ Len(h_seq) < MaxSeq
    /\ \E imsi \in EnvInfo.rawsend :
        /\ AtCommit(at_recvd_response(AtS, <<"at+cimi", imsi, "OK">>),
                    Call("at+cimi", imsi))
        /\ h_seq' = Append(h_seq, imsi)
        /\ UNCHANGED <<wifi, ins, rx, h_npub>>
SpecAtInfo == InitAt(EnvInfo) /\ [][AtInfo \/ AtCimi]_vars

\* attomqtt: a SIM card that becomes ready more than once, on a modem that
\* is a SIMCOM by option or by its answer to at+cgmi
EnvPbdone == [cmdlines |-> {CmdlineDefault, [opts |-> {O_CEER, O_SIMCOM}, ch |-> {O_SIMCOM}]},
              lines |-> {"+CPIN: READY", "PB DONE", "+CGMI: SIMCOM_Ltd"},
              wr |-> {"ok"}, blocks |-> 0, rawsend |-> {}]
\* at_recvd for one unsolicited line about the SIM card
AtSimUrc ==
    /\ at_pc = "loop"
    /\ Len(h_seq) < MaxUrc
    /\ \E str \in EnvPbdone.lines :
        /\ AtCommit(at_recvd_line(AtS, str, "ok"), Call("at_recvd", str))
        /\ h_seq' = Append(h_seq, str)
        /\ UNCHANGED <<wifi, ins, rx, h_npub>>
\* libt_flush runs simcom_fake_pbdone
AtFakePbdone ==
    /\ at_pc = "loop"
    /\ "simcom_fake_pbdone" \in timeouts
    /\ \E r \in {simcom_fake_pbdone([AtS EXCEPT !.timeouts = @ \ {"simcom_fake_pbdone"}],
                                      "ok")} :
        AtCommit(r, Call("simcom_fake_pbdone", ""))
    /\ UNCHANGED <<wifi, ins, rx, h_seq, h_npub>>
SpecAtPbdone == InitAt(EnvPbdone) /\ [][AtSimUrc \/ AtFakePbdone]_vars
\* a timer that is armed expires: the main loop always returns to libt_flush
SpecAtPbdoneFair == SpecAtPbdone /\ WF_vars(AtFakePbdone)

\* attomqtt: signal quality reports, as URC or in answer to at+csq
EnvCsq == [cmdlines |-> {CmdlineDefault},
           lines |-> {"+CSQ: " \o itoa(r) \o "," \o itoa(b) :
                         r \in {0, 12, 31, 99}, b \in {0, 3, 6, 7, 99}} \cup {"OK"},
           wr |-> {"ok"}, blocks |-> 0, rawsend |-> {}]
SpecAtCsq == InitAt(EnvCsq) /\ [][AtRecvdLine(EnvCsq)]_vars

\* attomqtt: the receive buffer under responses that span reads
\* attomqtt: a modem that answers with errors
EnvCeer == [cmdlines |-> {CmdlineDefault, CmdlineNoCeer},
            lines |-> {"OK", "ERROR", "+CME ERROR: 10"},
            wr |-> {"ok"}, blocks |-> 0, rawsend |-> {}]
\* read(atsock) delivered one complete line; at most MaxCeer commands are
\* added after startup
AtCeerLine ==
    /\ at_pc = "loop"
    /\ \E str \in EnvCeer.lines :
        \E r \in {at_recvd_line(AtS, str, "ok")} :
            /\ r.h_nenq <= r.h_nstart + MaxCeer
            /\ AtCommit(r, Call("at_recvd", str))
    /\ UNCHANGED <<wifi, ins, rx, h_seq, h_npub>>
\* libt_flush runs at_timeout
AtCeerTimeout ==
    /\ at_pc = "loop"
    /\ "at_timeout" \in timeouts /\ strq # <<>>
    /\ \E r \in {at_timeout([AtS EXCEPT !.timeouts = @ \ {"at_timeout"}], "ok")} :
        /\ r.h_nenq <= r.h_nstart + MaxCeer
        /\ AtCommit(r, Call("at_timeout", ""))
    /\ UNCHANGED <<wifi, ins, rx, h_seq, h_npub>>
SpecAtCeer == InitAt(EnvCeer) /\ [][AtCeerLine \/ AtCeerTimeout]_vars

\* attomqtt: the registration changes while an operator is known
EnvCreg == [cmdlines |-> {CmdlineDefault},
            lines |-> {"+CREG: 1", "+CREG: 0", "+CREG: 2", "+CREG: 5",
                       "+COPS: 0,2,\"20404\",7", "+COPN: \"20404\",\"Vodafone NL\"", "OK"},
            wr |-> {"ok"}, blocks |-> 0, rawsend |-> {}]
SpecAtCreg == InitAt(EnvCreg) /\ [][AtRecvdLine(EnvCreg)]_vars

SpecAtBuf == InitRx /\ [][AtRead]_vars

\* mypublish_change on its own
SpecChange == InitChange /\ [][Change]_vars

\* wifitomqtt
SpecWifi == InitWifi /\ [][WifiNext]_vars

\* wifitomqtt managing networks for the broker
SpecWifiNet == InitChange /\ [][WpaNetReply({}, {<<>>}) \/ WifiMqttMsg(Msgs)]_vars

\* wifitomqtt saving the configuration; the supplicant may refuse a change
SpecWifiSave ==
    InitChange /\ [][WpaNetReply({"SET_NETWORK", "ENABLE_NETWORK", "SET "}, {<<>>})
                     \/ WifiMqttMsg(SaveMsgs)]_vars

\* unsolicited lines and events in the middle of an exchange. The programs
\* share no state: attomqtt runs while wifitomqtt stands at its start, and
\* wifitomqtt runs once NO CARRIER has reached attomqtt inside the response to
\* its first command
EnvUrc == [cmdlines |-> {CmdlineDefault, CmdlineNoCeer},
           lines |-> {"OK", "NO CARRIER", "+CSQ: 12,3", "data"},
           wr |-> {"ok"}, blocks |-> 0,
           rawsend |-> {}]
SpecUrc ==
    InitAt(EnvUrc)
    /\ [][\/ wifi.h_last.op = "main" /\ AtRecvdLine(EnvUrc)
          \/ /\ h_last = [op |-> "at_recvd", arg |-> "NO CARRIER", head |-> "at", ign |-> 1]
             /\ argv # <<>>
             /\ (WpaNetReply({}, {<<>>}) \/ WpaRecvdEvent)]_vars

\* atinsert waiting for the responses to its commands
SpecIns == InitIns /\ [][InsMqttMsg \/ InsAlarm]_vars

\* wifitomqtt following the BSSs that the supplicant sees
\* wifitomqtt: the supplicant reports its configured networks while the
\* broker asks for one more
ListMsgs == {[topic |-> topicfmt("ssid/psk"), payload |-> "work\n\"hunter2\""]}
SpecWifiList == InitChange /\ [][WpaListReply \/ WifiMqttMsg(ListMsgs)]_vars
\* wifitomqtt: the supplicant may refuse to add a network
SpecWifiAdd == InitChange /\ [][WpaNetReply({"ADD_NETWORK"}, {<<>>}) \/ WifiMqttMsg(Msgs)]_vars
SpecWifiScan == InitChange /\ [][WpaNetReply({}, Scans) \/ WpaScanEvent]_vars

(* ------------------------------------------------------------------ *)
(* Properties                                                          *)
(* ------------------------------------------------------------------ *)
IsRawAt(m) == m[1] = "raw/at"
HasPub(q, m) == \E i \in 1..Len(q) : q[i] = m

\* C1: for commands A and B enqueued in that order, B is not written to the
\* device while A is still queued, and commands are written in enqueue
\* order: every queued command is at least as young as the command written
\* last, and the command written last never gets older.
C1_HeadOnlyInOrder ==
    /\ [](\A i \in 1..Len(strq) : strq[i].id >= h_wlast)
    /\ [][h_wlast' >= h_wlast]_vars
\* a command added at run time is written by the handler that removed its
\* last predecessor
C1_Witness ==
    /\ h_last.op \in {"at_recvd", "at_timeout"}
    /\ h_nwrites = 1
    /\ h_wlast > h_nstart
    /\ strq # <<>> /\ Head(strq).id = h_wlast

ValuesFor(c) ==
    LET IsC(x) == x[1] = c
        calls  == SelectSeq(h_seq, IsC)
    IN  <<NULL>> \o [i \in 1..Len(calls) |-> calls[i][2]]
\* the number of places where a sequence of values changes
NChanges(vals) ==
    Cardinality({i \in 1..(Len(vals) - 1) : OrEmpty(vals[i]) # OrEmpty(vals[i + 1])})

\* C4: mypublish_change publishes exactly when the new value differs from the
\* cached one, null and empty counting as equal, and the cache then holds the
\* new value: for every sequence of values the number of publishes is the
\* number of changes in the sequence, starting from an absent cache.
C4_PublishOnChange ==
    /\ \A c \in Caches :
        /\ h_npub[c] = NChanges(ValuesFor(c))
        /\ OrEmpty(AtS[c]) = OrEmpty(Last(ValuesFor(c)))
    /\ h_last.op = "mypublish_change" =>
        LET c    == Last(h_seq)[1]
            vals == ValuesFor(c)
        IN  pub = IF OrEmpty(vals[Len(vals) - 1]) # OrEmpty(Last(vals))
                  THEN << <<TopicOf(c), OrEmpty(Last(vals)), RetainOf(c)>> >>
                  ELSE <<>>
\* a value, the same value again, then the empty value: two publishes
C4_Witness ==
    /\ h_seq = << <<"saved_fail", "a">>, <<"saved_fail", "a">>, <<"saved_fail", "">> >>
    /\ h_npub["saved_fail"] = 2
    /\ saved_fail = NULL

\* C5: every run of at_timeout publishes '<cmd>: timeout' on fail, whatever
\* was published on fail before.
C5_EveryTimeoutPublishes ==
    h_last.op = "at_timeout" => HasPub(pub, <<"fail", h_last.head \o ": timeout", 0>>)

\* C6 as claimed: the fifth consecutive timeout is fatal.
C6_FatalOnFifth == nsubsequenttimeouts >= 5 => at_pc = "exited"
\* C6 as amended: the sixth consecutive timeout (six timeouts with no
\* completed response group in between) terminates attomqtt with exit code 1,
\* and fewer never do.
C6_FatalOnSixth ==
    /\ at_pc # "exited" => nsubsequenttimeouts <= MAXSUBSEQUENTTIMEOUTS
    /\ nsubsequenttimeouts > MAXSUBSEQUENTTIMEOUTS => h_cause = "timeouts"
    /\ h_cause = "timeouts" =>
        /\ at_pc = "exited" /\ at_exitcode = 1
        /\ nsubsequenttimeouts = MAXSUBSEQUENTTIMEOUTS + 1
C6_Witness == at_pc = "exited" /\ h_cause = "timeouts" /\ h_last.op = "at_timeout"

\* C7: every completed exchange of an AT command that does not end with OK
\* publishes '<cmd>: <terminator>' on fail (the exchange used to synchronise
\* at startup, which is ignored on purpose, left aside).
C7_EveryErrorPublishes ==
    (h_last.op = "at_recvd" /\ h_last.arg = "ERROR" /\ h_last.head # ""
        /\ h_last.ign = 0)
        => HasPub(pub, <<"fail", h_last.head \o ": ERROR", 0>>)

IsWritevFail(m) == m[1] = "fail" /\ strncmp0(m[2], "writev ", 7)

\* C8 as claimed: no number of consecutive blocked writes terminates the
\* process.
C8_NeverFatal == h_cause # "blocks"
\* C8 as amended: a blocked write of the queue head is retried by at_next_cmd;
\* up to 10 consecutive blocked writes publish nothing; the 11th publishes the
\* failure on fail and terminates the process with exit code 1.
C8_EleventhBlockFatal ==
    /\ at_pc # "exited" =>
        /\ nsuccessiveblocks <= MAXSUCCESSIVEBLOCKS
        /\ SelectSeq(pub, IsWritevFail) = <<>>
        /\ (nsuccessiveblocks > 0 /\ strq # <<>>) => "at_next_cmd" \in timeouts
    /\ h_cause = "blocks" =>
        /\ at_pc = "exited" /\ at_exitcode = 1
        /\ nsuccessiveblocks = MAXSUCCESSIVEBLOCKS + 1
        /\ HasPub(pub, <<"fail", "writev " \o pad7(Head(strq).a) \o ": 11 x "
                                  \o ESTR_EAGAIN, 0>>)
C8_Witness == at_pc = "exited" /\ h_cause = "blocks"

\* C9: EOF on the modem TTY makes attomqtt exit with code 1; exit code 0 is
\* produced only by termination on SIGINT/SIGTERM.
C9_EofExitsWithOne ==
    at_pc = "exited" =>
        /\ h_cause = "EOF" => at_exitcode = 1
        /\ at_exitcode = 0 => h_cause = "signal"

\* C10: wifitomqtt exits with code 0 when it terminates on SIGINT or SIGTERM,
\* and with code 1 only on fatal conditions.
C10_SignalExitsWithZero ==
    wifi.pc = "exited" =>
        /\ wifi.h_cause = "signal" => wifi.exitcode = 0
        /\ wifi.exitcode = 1 => wifi.h_cause \in {"wpa lost", "recv", "broker", "send"}

\* C11: the process exits with status 0 only after a tmp/selfsync message
\* carrying exactly the token it published has set ready, no other message
\* sets ready, every retained value still cached when the token is published
\* has its clearing publish in front of the token, and no retained publish
\* comes with or after the token.
C11_ExitOnlyAfterOwnToken ==
    /\ (at_pc = "exited" /\ at_exitcode = 0) => ready # 0
    /\ ready # 0 => /\ h_last = [h_last EXCEPT !.op = "selfsync", !.arg = SelfSyncToken]
                    /\ myuuid = SelfSyncToken
    /\ \A i, j \in 1..Len(h_sync) :
          (h_sync[i][1] = SelfSyncTopic /\ h_sync[j][3] = 1) => j < i
    /\ (myuuid # "" /\ h_sync # pub) => \A i \in 1..Len(pub) : pub[i][3] = 0
    /\ myuuid # "" =>
          /\ \A topic \in {"rssi", "ber"} :
                AtS["saved_" \o topic] # RSSI_NOVALUE => HasPub(h_sync, <<topic, "", 1>>)
          /\ \A topic \in PropTopics :
                AtS["saved_" \o topic] # NULL => HasPub(h_sync, <<topic, "", 1>>)
C11_Witness ==
    /\ at_pc = "exited" /\ at_exitcode = 0
    /\ h_last.op = "selfsync" /\ h_last.arg = SelfSyncToken
    /\ h_sync = <<<<"rssi", "", 1>>, <<"ber", "", 1>>, <<"ops", "", 0>>,
                  <<SelfSyncTopic, SelfSyncToken, 0>>>>

\* the SIM card properties and the caches behind them
SimTopics == {"iccid", "imsi", "number", "simop", "simopid"}

\* C13: after '+SIMCARD: NOT AVAILABLE' is processed, each of iccid, imsi,
\* number, simop and simopid holds an empty published value, its cache entry
\* is absent, and the operator table is empty.
C13_SimcardClearsAll ==
    (h_last.op = "at_recvd" /\ strcasecmp0(h_last.arg, "+simcard: not available"))
    => /\ \A topic \in SimTopics :
            OrEmpty(h_val[topic]) = "" /\ AtS["saved_" \o topic] = NULL
       /\ operators = <<>>

\* C12: for every retained modem property topic, whenever its cache entry is
\* absent the value published last on the topic is empty (or nothing was
\* published yet), so that the shutdown, which clears the topics whose cache
\* entry is present, leaves every topic empty.
C12_AbsentCacheMeansEmpty ==
    \A topic \in PropTopics : AtS["saved_" \o topic] = NULL => OrEmpty(h_val[topic]) = ""

\* C14 for one report of each kind: lac, cellid and nt set by a +CGREG report
\* are not overwritten by the +CREG report that follows it.
C14_CgregSurvivesCreg ==
    (Len(h_seq) >= 2 /\ h_seq[Len(h_seq) - 1] = "+CGREG: 1,1A2B,01C3,7"
     /\ h_seq[Len(h_seq)] = "+CREG: 1,0D05,0A11,2")
    => saved_lac = "6699" /\ saved_cellid = "451" /\ saved_nt = "4g"

\* C15: for every IMSI and every operator list built by +COPN lines,
\* imsi_to_operator resolves to an operator whose id is the longest prefix of
\* the IMSI among the ids of the list, or to none if no id is a prefix.
C15_LongestPrefix ==
    \A imsi \in EnvInfo.rawsend :
        LET prefixes == {j \in 1..Len(operators) :
                            strnprefix(imsi, Len(operators[j].id)) = operators[j].id}
            op == imsi_to_operator(AtS, imsi)
        IN  IF prefixes = {} THEN op = 0
            ELSE /\ op \in prefixes
                 /\ \A j \in prefixes : Len(operators[j].id) <= Len(operators[op].id)

\* C16: while an option was not given on the command line, simcom is set
\* exactly when the cached brand contains SIMCOM and detachedscan exactly
\* when the cached model contains SIM75; an option that was given, with or
\* without no-, keeps its value in every step.
C16_QuirkFollowsUnlessGiven ==
    /\ [](O_SIMCOM \notin changed_options
           => (O_SIMCOM \in options <=> strstr0(OrEmpty(saved_brand), "SIMCOM")))
    /\ [](O_DETACHEDSCAN \notin changed_options
           => (O_DETACHEDSCAN \in options <=> strstr0(OrEmpty(saved_model), "SIM75")))
    /\ [][\A o \in changed_options : o \in options' <=> o \in options]_vars
\* the brand enabled simcom and a second brand disabled it again, the model
\* enabled detachedscan
C16_Witness ==
    /\ h_seq = <<"+CGMI: SIMCOM_Ltd", "+CGMM: SIM7500E", "+CGMI: Quectel">>
    /\ changed_options = {}
    /\ options = {O_CEER, O_DETACHEDSCAN}
    /\ saved_brand = "Quectel" /\ saved_model = "SIM7500E"

\* C18: in every step in which the wifi state leaves 'station' for none, AP
\* or mesh, the cached speed and rssi are reset, and the topic of each that
\* held a value is published empty.
C18_LeavingStationClears ==
    [][(wifi.real_wifi_state = "station"
        /\ wifi'.real_wifi_state \in {"none", "AP", "mesh"})
       => /\ wifi'.saved_rssi = 0 /\ wifi'.saved_speed = 0
          /\ wifi.saved_rssi # 0 => HasPub(wifi'.pub, <<topicfmt("rssi"), "", 1>>)
          /\ wifi.saved_speed # 0 => HasPub(wifi'.pub, <<topicfmt("speed"), "", 1>>)]_vars

\* the networks the mode filter selects, all of them without a filter
Matching == {j \in 1..Len(wifi.networks) :
                wifi.selectedmode < 0 \/ wifi.networks[j].mode = wifi.selectedmode}
AllDisabled == \A j \in Matching : BF_DISABLED \in wifi.networks[j].flags
RealStates == {"station", "AP", "mesh", "none"}

\* C17: whenever a handler has returned, the published wifistate is 'off'
\* exactly if every network that matches the mode filter is disabled, and is
\* one of station, AP, mesh, none otherwise.
C17_OffIffAllDisabled ==
    (wifi.pc = "loop" /\ wifi.h_last.op # "main")
    => /\ (wifi.pub_wifi_state = "off") <=> AllDisabled
       /\ ~AllDisabled => wifi.pub_wifi_state \in RealStates

\* C17 as the code has it: whenever a handler that evaluated the wifi state
\* has returned, the published wifistate is 'off' exactly if at least one
\* network matches the mode filter and every matching network is disabled,
\* and is the current one of station, AP, mesh, none otherwise.
C17_OffIffMatchingAllDisabled ==
    (wifi.pc = "loop" /\ wifi.h_state_set = 1)
    => /\ (wifi.pub_wifi_state = "off") <=> (Matching # {} /\ AllDisabled)
       /\ ~(Matching # {} /\ AllDisabled)
          => wifi.pub_wifi_state = wifi.real_wifi_state
             /\ wifi.pub_wifi_state \in RealStates

\* the AP network is the only one and disabled: 'off' is published when its
\* id arrives
C17_Witness ==
    /\ wifi.pc = "loop" /\ wifi.h_state_set = 1
    /\ wifi.h_last.op = "reply"
    /\ wifi.pub_wifi_state = "off"
    /\ Len(wifi.networks) = 1
    /\ wifi.networks[1].ssid = "hotspot" /\ wifi.networks[1].id = 0
    /\ BF_DISABLED \in wifi.networks[1].flags

\* the commands sent in a step, in the order of sending
Sent == [i \in 1..(wifi'.h_nsent - wifi.h_nsent) |->
            wifi'.strq[Len(wifi'.strq) - (wifi'.h_nsent - wifi.h_nsent) + i].a]
SentCount(a) == Cardinality({i \in DOMAIN Sent : Sent[i] = a})
\* the step handles the answer to a command that starts with cmd
ReplyTo(cmd) ==
    /\ wifi.pc = "loop" /\ wifi.h_supp # <<>>
    /\ strncmp0(cmd, Head(wifi.h_supp).a, Len(cmd))
    /\ wifi'.h_last = [op |-> "reply", re |-> Head(wifi.h_supp).id]
\* the id-less networks before the step, and the one created first
Pending == {j \in 1..Len(wifi.networks) : wifi.networks[j].id = -1}
Oldest == CHOOSE j \in Pending :
            \A k \in Pending : wifi.networks[j].createseq <= wifi.networks[k].createseq
\* the ids of the networks of the table before or after the step
TableIds == {wifi.networks[j].id : j \in 1..Len(wifi.networks)}
            \cup {wifi'.networks[j].id : j \in 1..Len(wifi'.networks)}
SetNetwork(n, key, value) == "SET_NETWORK " \o itoa(n) \o " " \o key \o " " \o value
Changing == {"SET_NETWORK", "ENABLE_NETWORK", "DISABLE_NETWORK", "SELECT_NETWORK",
             "REMOVE_NETWORK", "ADD_NETWORK"}
IsChanging(a) == \E c \in Changing : strncmp0(c, a, Len(c))
\* the key and value of the messages that configure a network
ConfigOf(topic) == IF topic = topicfmt("ssid/psk") THEN <<"psk", "\"hunter2\"">>
                   ELSE <<"priority", "5">>
\* a psk or config message is handled for a network that has no id yet
ConfigPending ==
    /\ wifi.pc = "loop" /\ wifi'.h_nmsg = wifi.h_nmsg + 1
    /\ wifi'.h_last.op \in {topicfmt("ssid/psk"), topicfmt("ssid/config/priority")}
    /\ \E j \in 1..Len(wifi'.networks) :
          wifi'.networks[j].ssid = "home" /\ wifi'.networks[j].id < 0
\* what follows the SET_NETWORK commands when the id has arrived: SELECT_NETWORK
\* if selection was requested; nothing for a disabled network (of mode AP or
\* mesh only, if apmesh); ENABLE_NETWORK otherwise
Activation(net, n, apmesh) ==
    IF NF_SEL \in net.netflags THEN <<"SELECT_NETWORK " \o itoa(n)>>
    ELSE IF BF_DISABLED \in net.flags /\ (apmesh => net.mode \in {2, 5}) THEN <<>>
    ELSE <<"ENABLE_NETWORK " \o itoa(n)>>
CreatedNetworkFlush(apmesh) ==
    \* no SET_NETWORK before the id: the pair is buffered
    /\ ConfigPending
       => /\ \A i \in DOMAIN Sent : ~strncmp0("SET_NETWORK", Sent[i], 11)
          /\ \E j \in 1..Len(wifi'.networks) :
                /\ wifi'.networks[j].ssid = "home"
                /\ wifi'.networks[j].cfgs # <<>>
                /\ wifi'.networks[j].cfgs[Len(wifi'.networks[j].cfgs)]
                   = ConfigOf(wifi'.h_last.op)
    /\ \A i \in DOMAIN Sent :
          strncmp0("SET_NETWORK", Sent[i], 11)
          => \E n \in TableIds : n >= 0 /\ n < wifi'.h_nadd
                /\ strncmp0(Sent[i], "SET_NETWORK " \o itoa(n) \o " ",
                            Len("SET_NETWORK " \o itoa(n) \o " "))
    \* the id arrives: ssid, the buffered pairs in their order, the activation
    /\ (ReplyTo("ADD_NETWORK") /\ Pending # {}
        /\ NF_REMOVE \notin wifi.networks[Oldest].netflags)
       => Sent = <<SetNetwork(wifi.h_nadd, "ssid",
                              "\"" \o wifi.networks[Oldest].ssid \o "\"")>>
                 \o [i \in 1..Len(wifi.networks[Oldest].cfgs) |->
                        SetNetwork(wifi.h_nadd, wifi.networks[Oldest].cfgs[i][1],
                                   wifi.networks[Oldest].cfgs[i][2])]
                 \o Activation(wifi.networks[Oldest], wifi.h_nadd, apmesh)
    \* one SAVE_CONFIG, when the last of the queued changes is acknowledged
    /\ (ReplyTo("SET_NETWORK") \/ ReplyTo("ENABLE_NETWORK") \/ ReplyTo("SELECT_NETWORK"))
       => SentCount("SAVE_CONFIG")
          = IF \E j \in 2..Len(wifi.strq) : IsChanging(wifi.strq[j].a) THEN 0 ELSE 1
    /\ SentCount("SAVE_CONFIG") <= 1

IsMutating(a) ==
    \E c \in {"SET_NETWORK ", "ENABLE_NETWORK ", "DISABLE_NETWORK ", "SELECT_NETWORK ",
              "REMOVE_NETWORK ", "SET "} : strncmp0(c, a, Len(c))

C22_DeferredSaveNotLost ==
    (wifi.pc = "loop" /\ wifi.h_unsaved = 1)
    => \E j \in 1..Len(wifi.strq) :
          IsMutating(wifi.strq[j].a) \/ strncmp0("ADD_NETWORK", wifi.strq[j].a, 11)

\* the bssids of the BSS table of w
BssKeys(w) == {w.bsss[j].bssid : j \in 1..Len(w.bsss)}
\* the bssids that the lines of a SCAN_RESULTS response list
Listed(lines) == {strtok(lines[j], {"\t"}).tok : j \in 2..Len(lines)}
\* the four topics of bssid are published empty in the step
BssHidden(bssid) ==
    \A leaf \in {"ssid", "freq", "level", "flags"} :
        HasPub(wifi'.pub, <<topicfmt("bss/" \o bssid \o "/" \o leaf), "", 1>>)
\* the step handles a BSS response about bssid with an ssid that is not hidden
BssShown(bssid) ==
    /\ ReplyTo("BSS " \o bssid)
    /\ lastval(wifi'.h_reply, "bssid") = bssid
    /\ ~strncmp0(OrEmpty(lastval(wifi'.h_reply, "ssid")), "\\x00", 4)

\* C23: after a SCAN_RESULTS response has been processed, the bssids of the
\* BSS table are the bssids that the response lists, and every bssid dropped
\* from the table had its four bss/<bssid>/ topics published empty.
C23_TableIsScan ==
    [][ReplyTo("SCAN_RESULTS") =>
          /\ BssKeys(wifi') = Listed(wifi'.h_reply)
          /\ \A b \in BssKeys(wifi) \ BssKeys(wifi') : BssHidden(b)]_vars

\* C23, amended: after a SCAN_RESULTS response has been processed, the BSS
\* table holds those of its bssids that the response lists, every bssid
\* dropped had its four topics published empty, and every listed bssid is
\* asked for with BSS <bssid>, in the order of the list; a bssid enters the
\* table when the response to that BSS <bssid> arrives with an ssid that does
\* not start with \x00, and no other response adds or drops a bssid.
C23_TableFollowsScan ==
    [][
        /\ ReplyTo("SCAN_RESULTS") =>
            (/\ BssKeys(wifi') = BssKeys(wifi) \cap Listed(wifi'.h_reply)
             /\ \A b \in BssKeys(wifi) \ BssKeys(wifi') : BssHidden(b)
             /\ Sent = [j \in 1..(Len(wifi'.h_reply) - 1) |->
                           "BSS " \o strtok(wifi'.h_reply[j + 1], {"\t"}).tok])
        /\ \A x \in DOMAIN Air :
            BssShown(Air[x].bssid) => BssKeys(wifi') = BssKeys(wifi) \cup {Air[x].bssid}
        /\ (/\ ReplyTo("")
            /\ ~ReplyTo("SCAN_RESULTS")
            /\ \A x \in DOMAIN Air : ~BssShown(Air[x].bssid))
           => BssKeys(wifi') = BssKeys(wifi)]_vars
\* the response to the second SCAN_RESULTS names b and c: a is dropped from
\* the table of a and b, its topics are published empty
C23_Witness ==
    /\ wifi.pc = "loop" /\ wifi.h_last.op = "reply"
    /\ Len(wifi.h_reply) = 3
    /\ Listed(wifi.h_reply) = {Air.b.bssid, Air.c.bssid}
    /\ BssKeys(wifi) = {Air.b.bssid}
    /\ \A leaf \in {"ssid", "freq", "level", "flags"} :
        HasPub(wifi.pub, <<topicfmt("bss/" \o Air.a.bssid \o "/" \o leaf), "", 1>>)

\* the last tab-separated field of a response
LastField(msg) ==
    LET tabs == {i \in 1..Len(msg) : CharAt(msg, i) = "\t"}
    IN  strfrom(msg, CHOOSE i \in tabs \cup {0} : \A k \in tabs : k <= i)

\* C24: atinsert run with a single -x returns a non-zero exit code when the
\* response to one of its commands does not end with OK, and zero when every
\* response ends with OK.
C24_ExitCodeTellsFailure ==
    (ins.pc = "exited" /\ ins.cause = "return" /\ ins.failexit = 1)
    => (ins.exitcode # 0
        <=> \E i \in 1..Len(ins.out) : LastField(ins.out[i]) # "OK")

\* C25: each queue entry is transmitted by at most one successful write: a
\* handler that writes, writes an entry younger than the entry written last,
\* whatever the interleaving of blocked writes, at_next_cmd retries,
\* terminators and timeouts.
C25_WrittenOnce == [][h_nwrites' >= 1 => h_wlast' > h_wlast]_vars

\* an unsolicited line of the modem
IsUrc(str) ==
    \/ strcasecmp0(str, "NO CARRIER")
    \/ CharAt(str, 1) \in {"+", "*"} /\ ~strncmp0(str, "+CME ERROR", 10)
\* q is the queue p with commands appended
Appended(p, q) == Len(p) <= Len(q) /\ SubSeq(q, 1, Len(p)) = p

\* C26: processing an unsolicited line (AT: a line starting with '+' or '*'
\* other than '+CME ERROR', or NO CARRIER; wpa: a frame tagged <2>, <3> or <4>)
\* never removes the head of the command queue, never cancels the timeout of
\* the pending command and leaves the open response group unchanged; it may
\* only append commands.
C26_UrcKeepsExchange ==
    [][/\ (at_pc = "loop" /\ h_last'.op = "at_recvd" /\ IsUrc(h_last'.arg)) =>
            /\ Appended(strq, strq')
            /\ "at_timeout" \in timeouts => "at_timeout" \in timeouts'
            /\ argv' = argv
       /\ (wifi.pc = "loop" /\ wifi'.h_last.op = "event") =>
            /\ Appended(wifi.strq, wifi'.strq)
            /\ "wpa_cmd_timeout" \in wifi.timeouts => "wpa_cmd_timeout" \in wifi'.timeouts
            /\ wifi'.head = NoStr]_vars
\* NO CARRIER arrived after the first line of the response to 'at', which is
\* still pending with its timeout; CTRL-EVENT-CONNECTED arrived while
\* wifitomqtt waited for the responses to its first commands
C26_Witness ==
    /\ h_last = [op |-> "at_recvd", arg |-> "NO CARRIER", head |-> "at", ign |-> 1]
    /\ argv = <<"data">> /\ Head(strq).a = "at" /\ "at_timeout" \in timeouts
    /\ wifi.pc = "loop" /\ wifi.h_last.op = "event"
    /\ Len(wifi.strq) >= 3 /\ Head(wifi.strq).a = "ATTACH"
    /\ Last(wifi.strq).a = "STATUS"
    /\ "wpa_cmd_timeout" \in wifi.timeouts

\* C27: a terminator (OK, ERROR, '+CME ERROR ...', ABORT) that arrives while
\* the command queue is empty is published on raw/at as it is, no command is
\* popped or treated as answered, and nothing is published on fail, with the
\* ceer option enabled as well as disabled.
C27_StrayTerminator ==
    [][(at_pc = "loop" /\ strq = <<>> /\ h_last'.op = "at_recvd"
            /\ IsTerminator(h_last'.arg) /\ at_pc' = "loop") =>
          /\ SelectSeq(pub', IsRawAt) = << <<"raw/at", h_last'.arg, 0>> >>
          /\ \A i \in 1..Len(pub') : pub'[i][1] # "fail"
          /\ Len(strq') = h_nenq' - h_nenq]_vars

\* the step handles NO CARRIER while a command is pending
NoCarrierPending ==
    /\ at_pc = "loop" /\ strq # <<>>
    /\ h_last'.op = "at_recvd" /\ strcasecmp0(h_last'.arg, "NO CARRIER")

\* C28: NO CARRIER received while a command is pending acts as a response
\* terminator: the open response group is closed, '<cmd>: NO CARRIER' is
\* published on fail and the head is popped.
C28_NoCarrierTerminates ==
    [][NoCarrierPending =>
          /\ argv' = <<>>
          /\ HasPub(pub', <<"fail", Head(strq).a \o ": NO CARRIER", 0>>)
          /\ \A i \in 1..Len(strq') : strq'[i].id # Head(strq).id]_vars

\* C28, amended: NO CARRIER received while a command is pending is handled as
\* an unsolicited line: it is published on raw/at on its own and nothing is
\* published on fail, the response group stays as it is, the head stays
\* pending with its timeout, and with ceer enabled at+ceer is queued behind
\* the commands that wait, unless it is queued already.
C28_NoCarrierUnsolicited ==
    [][NoCarrierPending =>
          /\ pub' = << <<"raw/at", h_last'.arg, 0>> >>
          /\ argv' = argv
          /\ Head(strq') = Head(strq)
          /\ "at_timeout" \in timeouts => "at_timeout" \in timeouts'
          /\ h_nwrites' = 0
          /\ strq' = IF O_CEER \in options
                        /\ \A i \in 1..Len(strq) : strq[i].a # "at+ceer"
                     THEN Append(strq, [a |-> "at+ceer", id |-> h_nenq + 1])
                     ELSE strq]_vars
\* NO CARRIER arrived after the first line of the response to a command, with
\* ceer enabled: at+ceer is the last command of the queue
C28_Witness ==
    /\ h_last.op = "at_recvd" /\ h_last.arg = "NO CARRIER" /\ h_last.head # ""
    /\ O_CEER \in options
    /\ argv = <<"data">>
    /\ Head(strq).a = h_last.head /\ Last(strq).a = "at+ceer"
    /\ "at_timeout" \in timeouts
    /\ pub = << <<"raw/at", "NO CARRIER", 0>> >>

\* C29: the counter of consecutive timeouts is 0 after every completed
\* response group, whatever its terminator, and every timeout adds one to it:
\* a timeout that finds the counter below 4 never terminates the process, so
\* fewer than five timeouts, one response and up to four further timeouts
\* leave it running.
C29_ResponseResetsTimeouts ==
    [][/\ (strq # <<>> /\ h_last'.op = "at_recvd" /\ IsTerminator(h_last'.arg)) =>
            (at_pc' = "loop" /\ nsubsequenttimeouts' = 0)
       /\ (strq # <<>> /\ h_last'.op = "at_timeout") =>
            /\ nsubsequenttimeouts' = nsubsequenttimeouts + 1
            /\ nsubsequenttimeouts < 4 => (at_pc' = "loop" /\ h_cause' # "timeouts")]_vars
\* four timeouts in a row after six commands have left the queue: a response
\* was completed before them, and the process runs on
C29_Witness ==
    /\ at_pc = "loop" /\ h_last.op = "at_timeout"
    /\ nsubsequenttimeouts = 4
    /\ h_nenq - Len(strq) >= 6

\* what argv holds of a listing after its n-th line
Kept(n) ==
    IF n + 3 <= NARGV THEN [k \in 1..n |-> ListLine(k)]
    ELSE [k \in 1..(NARGV - 3) |-> IF k = NARGV - 3 THEN "..." ELSE ListLine(k)]

\* C30: the collected response group never exceeds the capacity of argv
\* (NARGV slots, the command at index 0 and the NULL terminator included):
\* when more lines arrive the earliest lines are kept and one '...' marker
\* stands for all dropped lines, and the terminator is the last element of
\* the group that is published and handed to at_recvd_response.
C30_GroupFitsArgv ==
    [][/\ Len(argv') + 3 <= NARGV
       /\ (strq # <<>> /\ h_last'.op = "at_recvd" /\ NextLine <= MaxLines
               /\ h_last'.arg = ListLine(NextLine)) =>
            argv' = Kept(NextLine)
       /\ (strq # <<>> /\ h_last'.op = "at_recvd" /\ IsTerminator(h_last'.arg)) =>
            /\ argv' = <<>>
            /\ HasPub(pub', <<"raw/at",
                              tabjoin(<<Head(strq).a>> \o argv \o <<h_last'.arg>>), 0>>)
            /\ (h_last'.arg # "OK" /\ ignore_responses = 0
                    /\ saved_fail # Head(strq).a \o ": " \o h_last'.arg) =>
                 HasPub(pub', <<"fail", Head(strq).a \o ": " \o h_last'.arg, 0>>)]_vars
\* a response of more lines than fit was closed by ERROR: the group that is
\* published holds the command, the earliest lines, the marker and ERROR
C30_Witness ==
    /\ h_last.op = "at_recvd" /\ h_last.arg = "ERROR" /\ h_last.head # ""
    /\ HasPub(pub, <<"raw/at",
                     tabjoin(<<h_last.head>> \o Kept(NARGV - 2) \o <<"ERROR">>), 0>>)
    /\ HasPub(pub, <<"fail", h_last.head \o ": ERROR", 0>>)

\* C31: whenever the queue of commands sent to wpa_supplicant is not empty,
\* the wpa_cmd_timeout timer is armed, so a command that stays unanswered for
\* 3 seconds sets wpa_lost and ends the process.
C31_PendingIsTimed ==
    (wifi.pc = "loop" /\ wifi.strq # <<>>) => "wpa_cmd_timeout" \in wifi.timeouts

\* C31, amended: every command sent to wpa_supplicant arms the
\* wpa_cmd_timeout timer, and the first response that answers a pending
\* command removes it, whatever else is pending: while the process runs the
\* timer is armed exactly if a command was sent and no response has answered
\* a command since. When it expires wpa_lost is set and the main loop
\* terminates the process. With commands pending, wpa_cmd_timeout or
\* wpa_keepalive is armed.
C31_TimedSinceLastSend ==
    [][(wifi.pc = "loop" /\ wifi'.pc = "loop") =>
            /\ "wpa_cmd_timeout" \in wifi'.timeouts <=>
                  \/ wifi'.h_nsent > wifi.h_nsent
                  \/ "wpa_cmd_timeout" \in wifi.timeouts /\ wifi'.h_last.op # "reply"
            /\ wifi'.h_last.op # "wpa_cmd_timeout"
            /\ wifi'.strq # <<>> =>
                  \E fn \in {"wpa_cmd_timeout", "wpa_keepalive"} : fn \in wifi'.timeouts]_vars
\* the timer expired with commands pending: the process is on its way out
C31_Witness ==
    /\ wifi.h_last.op = "wpa_cmd_timeout" /\ wifi.wpa_lost = 1
    /\ wifi.h_cause = "wpa lost" /\ wifi.pc # "loop"
    /\ wifi.strq # <<>>

\* the commands a handler sent, in the order of sending
SentNow == [j \in 1..(wifi'.h_nsent - wifi.h_nsent) |->
               wifi'.strq[Len(wifi'.strq) - (wifi'.h_nsent - wifi.h_nsent) + j].a]
\* the list of NetLists that the response just read reports
Reported == CHOOSE l \in NetLists : NetLines(l) = wifi'.h_reply
IsFirst(l, j) == \A k \in 1..(j - 1) : l[k].ssid # l[j].ssid
\* what the response asks for, line by line
RECURSIVE ListCmds(_, _)
ListCmds(l, j) ==
    IF j > Len(l) THEN <<>>
    ELSE (IF IsFirst(l, j)
          THEN <<"GET_NETWORK " \o itoa(l[j].id) \o " disabled",
                 "GET_NETWORK " \o itoa(l[j].id) \o " mode">>
          ELSE <<"REMOVE_NETWORK " \o itoa(l[j].id)>>) \o ListCmds(l, j + 1)
ListReplied ==
    /\ wifi.pc = "loop" /\ wifi.h_supp # <<>> /\ Head(wifi.h_supp).a = "LIST_NETWORKS"
    /\ wifi'.h_last.op = "reply"
TableIsList ==
    /\ wifi'.pc = "loop"
    /\ Len(wifi'.networks) = Cardinality({Reported[j].ssid : j \in 1..Len(Reported)})
    /\ {<<wifi'.networks[k].id, wifi'.networks[k].ssid>> : k \in 1..Len(wifi'.networks)}
         = {<<Reported[j].id, Reported[j].ssid>> :
               j \in {i \in 1..Len(Reported) : IsFirst(Reported, i)}}
    /\ SentNow = ListCmds(Reported, 1)

\* C32: after a LIST_NETWORKS response is processed the network table holds
\* exactly one record per distinct ssid of the response, with the first id
\* listed for it, whatever the table held before; every later duplicate
\* caused 'REMOVE_NETWORK <id>' and every new id 'GET_NETWORK <id> disabled'
\* then 'GET_NETWORK <id> mode'.
C32_TableIsList == [][ListReplied => TableIsList]_vars
\* the same, for a table that was empty before the response
C32_EmptyTableIsList == [][(ListReplied /\ wifi.networks = <<>>) => TableIsList]_vars

\* C33: under the SIMCOM quirk every unsolicited '+CPIN: READY' is eventually
\* followed by the SIM info burst (at+cspn?, at+ccid, at+cimi, at+cnum,
\* at+copn, counted by my_copn), through PB DONE or through the faked PB DONE
\* 10 seconds after the READY; this holds for each READY of a run.
C33_ReadyLeadsToBurst ==
    \A k \in 0..MaxUrc :
        (/\ at_pc = "loop" /\ O_SIMCOM \in options
         /\ h_last.op = "at_recvd" /\ h_last.arg = "+CPIN: READY"
         /\ my_copn = k) ~> (my_copn > k)

\* the values published for a raw rssi and a raw ber
RssiText(rssi) == IF rssi = 99 THEN NULL ELSE itoa(2 * rssi - 113)
BerText(ber) == IF ber \in 0..6 THEN ber_values[ber + 1] ELSE NULL
\* the publishes of one handler on a topic
PubsOn(q, topic) == SelectSeq(q, LAMBDA m : m[1] = topic)
\* the two numbers of a +CSQ report
CsqOf(str) == [rssi |-> strtoul(strfrom(str, 6)).val,
               ber |-> strtoul(strtok(strfrom(str, 6), {","}).rest).val]

\* C34: a +CSQ report publishes on rssi (on ber) exactly if the value to
\* publish differs from the value published last, absent for raw rssi 99 and
\* for every raw ber outside 0..6 and absent at the start: for any sequence of
\* reports the publishes are as many as the changes of the published value.
C34_PublishIffChanged ==
    [][(at_pc = "loop" /\ h_last'.op = "at_recvd" /\ strncasecmp0(h_last'.arg, "+csq: ", 6)) =>
          /\ PubsOn(pub', "rssi") =
                IF RssiText(CsqOf(h_last'.arg).rssi) # RssiText(saved_rssi)
                THEN << <<"rssi", OrEmpty(RssiText(CsqOf(h_last'.arg).rssi)), 1>> >> ELSE <<>>
          /\ PubsOn(pub', "ber") =
                IF BerText(CsqOf(h_last'.arg).ber) # BerText(saved_ber)
                THEN << <<"ber", OrEmpty(BerText(CsqOf(h_last'.arg).ber)), 1>> >> ELSE <<>>]_vars
\* the half of C34 about rssi
C34_RssiPublishIffChanged ==
    [][(at_pc = "loop" /\ h_last'.op = "at_recvd" /\ strncasecmp0(h_last'.arg, "+csq: ", 6)) =>
          PubsOn(pub', "rssi") =
                IF RssiText(CsqOf(h_last'.arg).rssi) # RssiText(saved_rssi)
                THEN << <<"rssi", OrEmpty(RssiText(CsqOf(h_last'.arg).rssi)), 1>> >> ELSE <<>>]_vars

\* C35: the lines collected in an open response group keep referring to
\* their original text inside the receive buffer until the group is closed,
\* across reads and compactions: every collected line lies inside [0, fill)
\* and reads as it did when it was collected.
C35_CollectedLinesStay ==
    rx.pc = "loop" =>
        \A j \in 1..Len(rx.argv) :
            /\ 0 <= rx.argv[j] /\ rx.argv[j] < rx.fill
            /\ cstr(rx.buf, rx.argv[j], "") = rx.h_orig[j]

(* ------------------------------------------------------------------ *)
(* C36: while the process runs and the queue holds a command, the       *)
(* at_timeout timer or the at_next_cmd retry timer is armed, so that    *)
(* something will pop or write the head; a write that fails for good    *)
(* terminates the process.                                              *)
(* ------------------------------------------------------------------ *)
C36_QueueNeverStalls ==
    (at_pc # "exited" /\ strq # <<>>) =>
        ("at_timeout" \in timeouts \/ "at_next_cmd" \in timeouts)

\* a response popped the head and the write of the next command blocked:
\* only the retry timer keeps the queue going
C36_Witness ==
    /\ at_pc = "loop" /\ strq # <<>>
    /\ h_last.op = "at_recvd" /\ h_last.arg = "OK"
    /\ h_last.head # Head(strq).a
    /\ "at_next_cmd" \in timeouts /\ "at_timeout" \notin timeouts

(* ------------------------------------------------------------------ *)
(* C37: the id of an ADD_NETWORK response goes to the record whose      *)
(* creation sent that ADD_NETWORK command: the record that had no id     *)
(* before the response and has one after it, or has left the table       *)
(* because its removal was pending, is the record created with the       *)
(* command that is answered.                                             *)
(* ------------------------------------------------------------------ *)
\* the ssids of the id-less records that the step gave an id or removed
BoundNow ==
    {wifi.networks[j].ssid : j \in
        {k \in Pending : \A l \in 1..Len(wifi'.networks) :
            wifi'.networks[l].ssid = wifi.networks[k].ssid => wifi'.networks[l].id # -1}}
C37_IdBoundToCreator ==
    [][ReplyTo("ADD_NETWORK")
       => \A ssid \in BoundNow :
             \E i \in 1..Len(wifi.h_created) :
                wifi.h_created[i] = [ssid |-> ssid, cmd |-> wifi'.h_last.re]]_vars

(* ------------------------------------------------------------------ *)
(* C38: set_wifi_state is never called with an undefined state, that    *)
(* is, nets_enabled_changed never runs while real_wifi_state is unset,  *)
(* whatever the order of broker messages and supplicant responses.      *)
(* ------------------------------------------------------------------ *)
C38_StateDefined == wifi.h_cause # "set_wifi_state(NULL)"

(* ------------------------------------------------------------------ *)
(* C39: a +CREG report that changes reg to a state other than           *)
(* registered, denied or roaming publishes op and opid empty, each if   *)
(* it held a value, and leaves saved_op and saved_opid absent; one that *)
(* changes reg to registered, denied or roaming enqueues at+cops?.      *)
(* ------------------------------------------------------------------ *)
\* the step handles a +CREG report that changes reg
RegChanges ==
    /\ at_pc = "loop" /\ at_pc' = "loop"
    /\ h_last'.op = "at_recvd" /\ strncasecmp0(h_last'.arg, "+creg: ", 7)
    /\ saved_reg' # saved_reg
C39_RegClearsOperator ==
    [][RegChanges =>
          IF saved_reg' \in {cregstr(1), cregstr(3), cregstr(5)}
          THEN /\ PubsOn(pub', "reg") # <<>>
               /\ Len(strq') = Len(strq) + 1
               /\ Last(strq').a = "at+cops?"
          ELSE /\ saved_op' = NULL /\ saved_opid' = NULL
               /\ saved_op # NULL => PubsOn(pub', "op") = << <<"op", "", 1>> >>
               /\ saved_opid # NULL => PubsOn(pub', "opid") = << <<"opid", "", 1>> >>]_vars
\* the half of C39 about at+cops?
C39_RegAsksOperator ==
    [][(RegChanges /\ saved_reg' \in {cregstr(1), cregstr(3), cregstr(5)})
          => /\ PubsOn(pub', "reg") # <<>>
             /\ Len(strq') = Len(strq) + 1
             /\ Last(strq').a = "at+cops?"]_vars

(* ------------------------------------------------------------------ *)
(* C40: with the ceer option, an ERROR or +CME ERROR line enqueues      *)
(* at+ceer exactly if no at+ceer is in the queue: the queue never holds *)
(* two of them, an error line that finds one queued (the error answer   *)
(* to at+ceer itself included) enqueues nothing and the queue gets      *)
(* shorter by the command it answers, so the queue drains.              *)
(* ------------------------------------------------------------------ *)
CeerQueued(q) == Cardinality({i \in 1..Len(q) : q[i].a = "at+ceer"})
\* the step handles an error line with the ceer option on
ErrorStep ==
    /\ at_pc = "loop" /\ O_CEER \in options
    /\ h_last'.op = "at_recvd"
    /\ (h_last'.arg = "ERROR" \/ strncmp0(h_last'.arg, "+CME ERROR", 10))
C40_CeerOnce ==
    [][/\ CeerQueued(strq') <= 1
       /\ (ErrorStep /\ CeerQueued(strq) > 0)
          => h_nenq' = h_nenq /\ Len(strq') = Len(strq) - 1
       /\ (ErrorStep /\ CeerQueued(strq) = 0)
          => /\ h_nenq' = h_nenq + 1
             /\ strq # <<>> => Last(strq') = [a |-> "at+ceer", id |-> h_nenq']]_vars

\* at+ceer was the head and the only command queued, and got an error for
\* an answer: the queue is empty and nothing was enqueued
C40_Witness ==
    /\ at_pc = "loop" /\ O_CEER \in options
    /\ h_last.op = "at_recvd" /\ h_last.arg \in {"ERROR", "+CME ERROR: 10"}
    /\ h_last.head = "at+ceer"
    /\ strq = <<>> /\ h_nenq = h_nstart + 1

====
